---- MODULE Spec2Model ----
(***************************************************************************)
(* A model of the invoice-parser extraction pipeline:                      *)
(*   app/services/validator.py      InvoiceValidator (Normalizer)          *)
(*   app/services/llm_extractor.py  LLMExtractor, _extract_json_object     *)
(*   app/services/pdf_extractor.py  SmartPDFExtractor (Extraction Router)  *)
(*   app/services/pipeline.py       Pipeline.run                           *)
(*   app/api/v1/router.py           the /extract handler's 200 response    *)
(*                                                                         *)
(* Values of unknown shape (JSON values, Python objects) are tagged        *)
(* records [k |-> kind, v |-> payload]; a key that a dict does not hold is *)
(* the value Missing.                                                      *)
(***************************************************************************)
EXTENDS Integers, Sequences, FiniteSets, TLC

VARIABLES
    vpc,        \* validate(): position in the method body
    vraw,       \* validate(): the argument raw
    vdata,      \* validate(): processed, the copy _normalize_date returns
    vresult,    \* validate(): result, the InvoiceResult _coerce returned
    vpath,      \* validate(): which return statement of _coerce produced result
    vwarnings,  \* validate(): the logger.warning records emitted so far
    vexc,       \* validate(): the exception that left validate, or "none"
    vfirst      \* the result of an earlier validate call that is validated again

VARIABLES
    spc,          \* _extract_json_object(): position in the function body
    sraw,         \* _extract_json_object(): the argument raw
    start,        \* _extract_json_object(): raw.find("{"), 1-based, 0 for -1
    scan_i,       \* _extract_json_object(): the loop variable i, 1-based
    depth,        \* _extract_json_object(): depth
    in_string,    \* _extract_json_object(): in_string
    escape_next,  \* _extract_json_object(): escape_next
    sret          \* _extract_json_object(): the value returned

VARIABLES
    epc,        \* extract_fields(): position in the method body (and in _parse)
    etext,      \* how the model composed its text: prose, json.dumps(payload), prose
    eresponse,  \* what self._model.create_chat_completion does: returns or raises
    eraw,       \* extract_fields(): raw, the first choice's content as a string
    edata,      \* _parse(): data
    eresult,    \* _parse(): result, the record extract_fields returns
    eexc        \* the exception that left extract_fields, or "none"

VARIABLES
    rpc,         \* SmartPDFExtractor.extract(): position in the method body
    rfile,       \* SmartPDFExtractor.extract(): the document behind file_bytes
    rtext,       \* SmartPDFExtractor.extract(): text
    page_count,  \* SmartPDFExtractor.extract(): page_count
    rresult,     \* SmartPDFExtractor.extract(): the ExtractionResult returned
    rexc,        \* the exception that left extract, or "none"
    rran         \* the calls extract made on the document: open it, recognize it

VARIABLES
    ppc,        \* Pipeline.run(): position in the method body
    pcalls,     \* the stages Pipeline.run has invoked, in order
    pret,       \* Pipeline.run(): the tuple returned
    pexc,       \* the exception that left Pipeline.run, or "none"
    hresponse   \* the HTTP response the application sent, None before

VARIABLES
    hpc,           \* the request: how far the application has taken it
    hreq,          \* the request: path, X-API-Key header, uploaded file
    model_loaded,  \* app.state.model_loaded
    hran,          \* the parts of the application that ran for the request
    hexc,          \* the exception that left the route or its dependency
    hlog           \* the "extract complete" records logged for the request

VARIABLES
    lpc,       \* lifespan(): position in the function body
    lenv,      \* lifespan(): what get_settings() returns and what init_model does
    pipeline,  \* app.state.pipeline, None while it is not set
    lexc       \* the exception that left lifespan, or "none"

VARIABLES
    parked     \* the variables of a second request while the first one runs

vvars == <<vpc, vraw, vdata, vresult, vpath, vwarnings, vexc, vfirst>>

svars == <<spc, sraw, start, scan_i, depth, in_string, escape_next, sret>>

evars == <<epc, etext, eresponse, eraw, edata, eresult, eexc>>

rvars == <<rpc, rfile, rtext, page_count, rresult, rexc, rran>>

hvars == <<hpc, hreq, model_loaded, hran, hexc, hlog>>

lvars == <<lpc, lenv, pipeline, lexc>>

xvars == <<lvars, parked>>

pvars == <<ppc, pcalls, pret, pexc, hresponse, hvars, xvars>>

vars == <<vvars, svars, evars, rvars, pvars>>

-----------------------------------------------------------------------------
(* Tagged values *)

Null == [k |-> "null"]

Missing == [k |-> "missing"]

Str(s) == [k |-> "str", v |-> s]

Num(n) == [k |-> "num", v |-> n]

Obj(fields) == [k |-> "obj", v |-> fields]

\* a dict of the pairs whose value is not Missing
DictOf(pairs) ==
    Obj([key \in {x \in DOMAIN pairs : pairs[x].k # "missing"} |-> pairs[key]])

\* a datetime.date instance
DateOf(y, m, d) == [k |-> "date", v |-> [y |-> y, m |-> m, d |-> d]]

\* a MonetaryAmount instance
Money(amount, currency) ==
    [k |-> "money", v |-> [amount |-> amount, currency |-> currency]]

\* the field names of InvoiceResult, in declaration order
_INVOICE_FIELDS ==
    <<"invoiceDate", "invoiceReference", "netAmount", "vatAmount", "totalAmount">>

FiveKeys == {_INVOICE_FIELDS[i] : i \in DOMAIN _INVOICE_FIELDS}

AmountKeys == <<"netAmount", "vatAmount", "totalAmount">>

\* dict.get(key): the value, None when the key is missing
Get(d, key) == IF d[key].k = "missing" THEN Null ELSE d[key]

\* the value an input dict holds under key, Missing when it holds none
Field(dict, key) == IF key \in DOMAIN dict THEN dict[key] ELSE Missing

SP == " "

-----------------------------------------------------------------------------
(* Decimal arithmetic under the default context.  An amount is an integer   *)
(* number of units; a result whose magnitude exceeds the largest finite    *)
(* number of the context signals decimal.Overflow, which the default       *)
(* context traps (raises).                                                 *)

CtxMax == 1000

Abs(x) == IF x < 0 THEN -x ELSE x

DecOverflows(x) == Abs(x) > CtxMax

-----------------------------------------------------------------------------
(* A string is a sequence of symbols: single characters that some part of  *)
(* the program tells apart (the space among them) and words, runs of other  *)
(* characters.                                                              *)

\* the words of a string
Words(s) == SelectSeq(s, LAMBDA x : x # SP)

\* the items of the dict literal _EUROPEAN_MONTHS
MonthPairs ==
    {<<"januar", "January">>, <<"februar", "February">>, <<"märz", "March">>,
     <<"mär", "March">>, <<"mai", "May">>, <<"juni", "June">>,
     <<"juli", "July">>, <<"oktober", "October">>, <<"dezember", "December">>,
     <<"mars", "March">>, <<"desember", "December">>, <<"januari", "January">>,
     <<"februari", "February">>, <<"maart", "March">>, <<"mei", "May">>,
     <<"december", "December">>, <<"janvier", "January">>, <<"février", "February">>,
     <<"avril", "April">>, <<"juin", "June">>, <<"juillet", "July">>,
     <<"août", "August">>, <<"octobre", "October">>, <<"novembre", "November">>,
     <<"décembre", "December">>, <<"gennaio", "January">>, <<"febbraio", "February">>,
     <<"marzo", "March">>, <<"aprile", "April">>, <<"maggio", "May">>,
     <<"giugno", "June">>, <<"luglio", "July">>, <<"settembre", "September">>,
     <<"ottobre", "October">>, <<"dicembre", "December">>, <<"enero", "January">>,
     <<"febrero", "February">>, <<"junio", "June">>, <<"julio", "July">>,
     <<"agosto", "August">>, <<"septiembre", "September">>, <<"octubre", "October">>,
     <<"noviembre", "November">>, <<"diciembre", "December">>}

_EUROPEAN_MONTHS ==
    [w \in {p[1] : p \in MonthPairs} |->
        (CHOOSE p \in MonthPairs : p[1] = w)[2]]

\* the words written with capitals, and the same words in lower case
CaseForms ==
    {<<"January", "january">>, <<"February", "february">>, <<"March", "march">>,
     <<"April", "april">>, <<"May", "may">>, <<"June", "june">>,
     <<"July", "july">>, <<"August", "august">>, <<"September", "september">>,
     <<"October", "october">>, <<"November", "november">>, <<"December", "december">>,
     <<"Januar", "januar">>, <<"MARS", "mars">>, <<"Février", "février">>,
     <<"FÉVRIER", "février">>, <<"Dezember", "dezember">>, <<"GENNAIO", "gennaio">>,
     <<"Septembre", "septembre">>, <<"MAJ", "maj">>, <<"Agosto", "agosto">>,
     <<"AUGUST", "august">>}

\* str.lower(), as re.IGNORECASE and dateutil compare words
Lower(w) ==
    IF \E p \in CaseForms : p[1] = w
    THEN (CHOOSE p \in CaseForms : p[1] = w)[2]
    ELSE w

\* pattern.sub(english, s) for every pattern: \b<local>\b matches whole words
_normalize_european_months(s) ==
    [i \in DOMAIN s |->
        IF Lower(s[i]) \in DOMAIN _EUROPEAN_MONTHS
        THEN _EUROPEAN_MONTHS[Lower(s[i])]
        ELSE s[i]]

\* the strings date.fromisoformat accepts: one word, YYYY-MM-DD
IsoDates ==
    [w \in {"2024-01-15", "2024-02-15", "2024-03-15", "2024-04-15", "2024-05-15",
             "2024-06-15", "2024-07-15", "2024-08-15", "2024-09-15", "2024-10-15",
             "2024-11-15", "2024-12-15", "2024-03-10", "2024-08-01"} |->
        CASE w = "2024-01-15" -> [y |-> 2024, m |-> 1, d |-> 15]
          [] w = "2024-02-15" -> [y |-> 2024, m |-> 2, d |-> 15]
          [] w = "2024-03-15" -> [y |-> 2024, m |-> 3, d |-> 15]
          [] w = "2024-04-15" -> [y |-> 2024, m |-> 4, d |-> 15]
          [] w = "2024-05-15" -> [y |-> 2024, m |-> 5, d |-> 15]
          [] w = "2024-06-15" -> [y |-> 2024, m |-> 6, d |-> 15]
          [] w = "2024-07-15" -> [y |-> 2024, m |-> 7, d |-> 15]
          [] w = "2024-08-15" -> [y |-> 2024, m |-> 8, d |-> 15]
          [] w = "2024-09-15" -> [y |-> 2024, m |-> 9, d |-> 15]
          [] w = "2024-10-15" -> [y |-> 2024, m |-> 10, d |-> 15]
          [] w = "2024-11-15" -> [y |-> 2024, m |-> 11, d |-> 15]
          [] w = "2024-12-15" -> [y |-> 2024, m |-> 12, d |-> 15]
          [] w = "2024-03-10" -> [y |-> 2024, m |-> 3, d |-> 10]
          [] w = "2024-08-01" -> [y |-> 2024, m |-> 8, d |-> 1]]

FromIsoFormatOk(s) == Len(s) = 1 /\ s[1] \in DOMAIN IsoDates

\* the month names and abbreviations dateutil knows, in lower case
EnglishMonthPairs ==
    {<<"january", 1>>, <<"february", 2>>, <<"march", 3>>, <<"april", 4>>,
     <<"may", 5>>, <<"june", 6>>, <<"july", 7>>, <<"august", 8>>,
     <<"september", 9>>, <<"october", 10>>, <<"november", 11>>, <<"december", 12>>,
     <<"jan", 1>>, <<"feb", 2>>, <<"mar", 3>>, <<"apr", 4>>,
     <<"jun", 6>>, <<"jul", 7>>, <<"aug", 8>>, <<"sep", 9>>,
     <<"sept", 9>>, <<"oct", 10>>, <<"nov", 11>>, <<"dec", 12>>}

EnglishMonths ==
    [w \in {p[1] : p \in EnglishMonthPairs} |->
        (CHOOSE p \in EnglishMonthPairs : p[1] = w)[2]]

DayWords == [w \in {"15", "15."} |-> 15]

YearWords == [w \in {"2024"} |-> 2024]

\* dateutil_parser.parse(s, dayfirst=True): "D Month YYYY" parses; in
\* "YYYY-A-B" the day comes first, so B is the month when it can be one; a
\* number too large for a C long raises OverflowError; anything else
\* ValueError
DateutilParse(s) ==
    LET w == Words(s) IN
    IF Len(w) = 1 /\ w[1] \in DOMAIN IsoDates
    THEN LET iso == IsoDates[w[1]] IN
         [ok |-> TRUE,
          date |-> IF iso.d <= 12 THEN [y |-> iso.y, m |-> iso.d, d |-> iso.m]
                   ELSE iso]
    ELSE IF /\ Len(w) = 3
       /\ w[1] \in DOMAIN DayWords
       /\ Lower(w[2]) \in DOMAIN EnglishMonths
       /\ w[3] \in DOMAIN YearWords
    THEN [ok |-> TRUE,
          date |-> [y |-> YearWords[w[3]], m |-> EnglishMonths[Lower(w[2])],
                    d |-> DayWords[w[1]]]]
    ELSE IF \E i \in DOMAIN s : s[i] = "99999999999999999999"
    THEN [ok |-> FALSE, exc |-> "OverflowError"]
    ELSE [ok |-> FALSE, exc |-> "ValueError"]

\* isinstance(x, date): date and its subclass datetime
IsDateInstance(x) == x.k \in {"date", "datetime"}

\* _normalize_date without the date.fromisoformat shortcut
_normalize_date_always_lenient(data) ==
    LET invoice_date == Get(data, "invoiceDate") IN
    IF invoice_date.k = "null" \/ IsDateInstance(invoice_date) THEN data
    ELSE IF invoice_date.k # "str"
    THEN [data EXCEPT !["invoiceDate"] = Null]
    ELSE LET normalized == _normalize_european_months(invoice_date.v)
             parsed == DateutilParse(normalized)
         IN  IF parsed.ok
             THEN [data EXCEPT !["invoiceDate"] = [k |-> "date", v |-> parsed.date]]
             ELSE [data EXCEPT !["invoiceDate"] = Null]

\* _normalize_date that leaves what it cannot read where it is
_normalize_date_keeps_unreadable(data) ==
    LET invoice_date == Get(data, "invoiceDate") IN
    IF invoice_date.k = "null" \/ IsDateInstance(invoice_date) THEN data
    ELSE IF invoice_date.k # "str" THEN data
    ELSE IF FromIsoFormatOk(invoice_date.v) THEN data
    ELSE LET normalized == _normalize_european_months(invoice_date.v)
             parsed == DateutilParse(normalized)
         IN  IF parsed.ok
             THEN [data EXCEPT !["invoiceDate"] = [k |-> "date", v |-> parsed.date]]
             ELSE data

_normalize_date(data) ==
    LET invoice_date == Get(data, "invoiceDate") IN
    IF invoice_date.k = "null" \/ IsDateInstance(invoice_date) THEN data
    ELSE IF invoice_date.k # "str"
    THEN [data EXCEPT !["invoiceDate"] = Null]
    ELSE IF FromIsoFormatOk(invoice_date.v) THEN data
    ELSE LET normalized == _normalize_european_months(invoice_date.v)
             parsed == DateutilParse(normalized)
         IN  IF parsed.ok
             THEN [data EXCEPT !["invoiceDate"] = [k |-> "date", v |-> parsed.date]]
             ELSE [data EXCEPT !["invoiceDate"] = Null]

-----------------------------------------------------------------------------
(* InvoiceResult.model_validate: pydantic's lax coercion of each field.     *)
(* A coercion returns [ok, val]; ok = FALSE is one entry of                 *)
(* ValidationError.errors() whose loc starts with the field's name.         *)

Fail == [ok |-> FALSE, val |-> Null]

Ok(val) == [ok |-> TRUE, val |-> val]

\* invoiceDate coerced from strings only: a date instance is an error
CoerceDate_strings_only(x) ==
    CASE x.k = "null" -> Ok(Null)
      [] x.k = "str" ->
            IF FromIsoFormatOk(x.v)
            THEN Ok([k |-> "date", v |-> IsoDates[x.v[1]]])
            ELSE Fail
      [] OTHER -> Fail

\* invoiceDate: date | None
CoerceDate(x) ==
    CASE x.k = "null" -> Ok(Null)
      [] x.k = "date" -> Ok(x)
      [] x.k = "datetime" -> Fail      \* a datetime with a time part is no date
      [] x.k = "str" ->
            IF FromIsoFormatOk(x.v)
            THEN Ok([k |-> "date", v |-> IsoDates[x.v[1]]])
            ELSE Fail
      [] x.k = "num" ->                \* unix seconds, exact days only
            IF x.v % 86400 = 0 /\ x.v \div 86400 \in 0..30
            THEN Ok(DateOf(1970, 1, 1 + (x.v \div 86400)))
            ELSE Fail
      [] OTHER -> Fail

\* invoiceReference: str | None
CoerceStr(x) ==
    CASE x.k = "null" -> Ok(Null)
      [] x.k = "str" -> Ok(x)
      [] OTHER -> Fail

\* Decimal(str) for the numeric strings the model uses; 600 units stand for
\* 6E+999999, more than half of the largest number of the context
DecimalStrings ==
    [w \in {"-100", "0", "25", "100", "200", "6E+999999"} |->
        CASE w = "-100" -> -100 [] w = "0" -> 0 [] w = "25" -> 25
          [] w = "100" -> 100 [] w = "200" -> 200 [] w = "6E+999999" -> 600]

\* MonetaryAmount.amount: Decimal (required, finite)
CoerceDecimal(x) ==
    CASE x.k = "num" -> Ok(x.v)
      [] x.k = "str" ->
            IF Len(x.v) = 1 /\ x.v[1] \in DOMAIN DecimalStrings
            THEN Ok(DecimalStrings[x.v[1]])
            ELSE Fail
      [] OTHER -> Fail                 \* None, missing, NaN, containers

\* netAmount, vatAmount, totalAmount: MonetaryAmount | None
CoerceMoney(x) ==
    CASE x.k = "null" -> Ok(Null)
      [] x.k = "money" -> Ok(x)
      [] x.k = "obj" ->
            LET amount == CoerceDecimal(Field(x.v, "amount"))
                currency == CoerceStr(Field(x.v, "currency"))
            IN  IF amount.ok /\ currency.ok
                THEN Ok(Money(amount.val, currency.val))
                ELSE Fail
      [] OTHER -> Fail

CoerceField(f, x) ==
    CASE f = "invoiceDate" -> CoerceDate(x)
      [] f = "invoiceReference" -> CoerceStr(x)
      [] OTHER -> CoerceMoney(x)

\* {error["loc"][0] for error in exc.errors()}
ErrorLocs(data) == {f \in FiveKeys : ~CoerceField(f, data[f]).ok}

model_validate(data) ==
    IF ErrorLocs(data) = {}
    THEN [ok |-> TRUE, val |-> [f \in FiveKeys |-> CoerceField(f, data[f]).val]]
    ELSE [ok |-> FALSE, val |-> [f \in FiveKeys |-> Null]]

AllAbsent == [f \in FiveKeys |-> Null]

\* _coerce without the retry: any error gives the all-absent result
_coerce_no_retry(data) ==
    LET first == model_validate(data) IN
    IF first.ok THEN [val |-> first.val, path |-> "direct"]
    ELSE [val |-> AllAbsent, path |-> "fallback"]

_coerce(data) ==
    LET first == model_validate(data) IN
    IF first.ok THEN [val |-> first.val, path |-> "direct"]
    ELSE LET cleaned == [f \in FiveKeys |->
                            IF f \in ErrorLocs(data) THEN Null ELSE data[f]]
             second == model_validate(cleaned)
         IN  IF second.ok THEN [val |-> second.val, path |-> "retry"]
             ELSE [val |-> AllAbsent, path |-> "fallback"]

-----------------------------------------------------------------------------
(* The consistency checks.  Each returns the warnings it logs and whether   *)
(* it raised.                                                               *)

Present(result, key) == result[key].k # "null"

Amount(result, key) == result[key].v.amount

Currency(result, key) == result[key].v.currency

\* what a check leaves behind: the warnings it logged, whether it raised, and
\* the InvoiceResult object as it is after the call
Checked(warnings, raised, result) ==
    [warnings |-> warnings, raised |-> raised, result |-> result]

\* _check_totals that repairs an inconsistent total instead of only logging
_check_totals_repairing(result) ==
    IF Present(result, "netAmount") /\ Present(result, "vatAmount")
       /\ Present(result, "totalAmount")
       /\ Amount(result, "totalAmount")
            # Amount(result, "netAmount") + Amount(result, "vatAmount")
    THEN Checked(<< <<"totals inconsistency">> >>, FALSE,
                 [result EXCEPT !["totalAmount"] =
                     Money(Amount(result, "netAmount") + Amount(result, "vatAmount"),
                           Currency(result, "totalAmount"))])
    ELSE Checked(<<>>, FALSE, result)

\* _check_totals without the return after the currency warning
_check_totals_no_return(result) ==
    IF Present(result, "netAmount") /\ Present(result, "vatAmount")
       /\ Present(result, "totalAmount")
    THEN LET currencies == {Currency(result, "netAmount"),
                            Currency(result, "vatAmount"),
                            Currency(result, "totalAmount")}
             net == Amount(result, "netAmount")
             vat == Amount(result, "vatAmount")
             total == Amount(result, "totalAmount")
             mismatch == IF Cardinality(currencies) > 1
                         THEN << <<"currency mismatch">> >> ELSE <<>>
         IN  IF total = 0
             THEN Checked(mismatch, FALSE, result)
             ELSE IF DecOverflows(net + vat) \/ DecOverflows(net + vat - total)
             THEN Checked(mismatch, TRUE, result)
             ELSE IF Abs(net + vat - total) * 100 > Abs(total)
             THEN Checked(mismatch \o << <<"totals inconsistency">> >>, FALSE, result)
             ELSE Checked(mismatch, FALSE, result)
    ELSE Checked(<<>>, FALSE, result)

_check_totals(result) ==
    IF Present(result, "netAmount") /\ Present(result, "vatAmount")
       /\ Present(result, "totalAmount")
    THEN LET currencies == {Currency(result, "netAmount"),
                            Currency(result, "vatAmount"),
                            Currency(result, "totalAmount")}
             net == Amount(result, "netAmount")
             vat == Amount(result, "vatAmount")
             total == Amount(result, "totalAmount")
         IN  IF Cardinality(currencies) > 1
             THEN Checked(<< <<"currency mismatch">> >>, FALSE, result)
             ELSE IF total = 0
             THEN Checked(<<>>, FALSE, result)
             ELSE IF DecOverflows(net + vat) \/ DecOverflows(net + vat - total)
             THEN Checked(<<>>, TRUE, result)
             ELSE IF Abs(net + vat - total) * 100 > Abs(total)
             THEN Checked(<< <<"totals inconsistency">> >>, FALSE, result)
             ELSE Checked(<<>>, FALSE, result)
    ELSE Checked(<<>>, FALSE, result)

IsNegative(result, key) == Present(result, key) /\ Amount(result, key) < 0

_check_negative_amounts(result) ==
    LET negative == SelectSeq(AmountKeys, LAMBDA key : IsNegative(result, key))
    IN  Checked([i \in DOMAIN negative |-> <<"negative amount", negative[i]>>],
                FALSE, result)

-----------------------------------------------------------------------------
(* InvoiceValidator.validate, one step per statement *)

NOK == Str(<<"NOK">>)

EUR == Str(<<"EUR">>)

AmountValues ==
    {Num(-100), Num(0), Num(25), Num(100), Num(200), Str(<<"6E+999999">>)}

AmountObj(amount, currency) == DictOf([amount |-> amount, currency |-> currency])

\* well-shaped amount objects
GoodAmounts ==
    {AmountObj(a, c) : a \in AmountValues, c \in {NOK, EUR, Null}}

\* amount values of every shape: absent, wrong-typed, partially shaped
ShapedAmounts ==
    {Missing, Null, Str(<<"not-an-object">>), [k |-> "list", v |-> <<>>],
     AmountObj(Num(100), NOK), AmountObj(Str(<<"100">>), Null),
     AmountObj(Missing, NOK), AmountObj(Str(<<"junk">>), NOK),
     AmountObj(Num(100), Num(978)), AmountObj(Num(-100), Missing)}

ShapedDates ==
    {Missing, Null, Num(12345), [k |-> "bool", v |-> TRUE], [k |-> "datetime"],
     DateOf(2024, 1, 15), Str(<<"2024-01-15">>), Str(<<"2024-03-10">>),
     Str(<<"15.", SP, "Januar", SP, "2024">>), Str(<<"order", SP, "#2024-001">>),
     Str(<<"99999999999999999999">>)}

\* the month names of German, Dutch, French, Italian, Spanish, Norwegian,
\* Danish and Swedish, in lower case, with the number of the month
LanguageMonths ==
    {<<"enero", 1>>, <<"gennaio", 1>>, <<"januar", 1>>, <<"januari", 1>>,
     <<"janvier", 1>>, <<"febbraio", 2>>, <<"febrero", 2>>, <<"februar", 2>>,
     <<"februari", 2>>, <<"février", 2>>, <<"maart", 3>>, <<"mars", 3>>,
     <<"marts", 3>>, <<"marzo", 3>>, <<"märz", 3>>, <<"abril", 4>>,
     <<"april", 4>>, <<"aprile", 4>>, <<"avril", 4>>, <<"maggio", 5>>,
     <<"mai", 5>>, <<"maj", 5>>, <<"mayo", 5>>, <<"mei", 5>>,
     <<"giugno", 6>>, <<"juin", 6>>, <<"juni", 6>>, <<"junio", 6>>,
     <<"juillet", 7>>, <<"juli", 7>>, <<"julio", 7>>, <<"luglio", 7>>,
     <<"agosto", 8>>, <<"août", 8>>, <<"august", 8>>, <<"augusti", 8>>,
     <<"augustus", 8>>, <<"september", 9>>, <<"septembre", 9>>, <<"septiembre", 9>>,
     <<"settembre", 9>>, <<"octobre", 10>>, <<"octubre", 10>>, <<"oktober", 10>>,
     <<"ottobre", 10>>, <<"november", 11>>, <<"novembre", 11>>, <<"noviembre", 11>>,
     <<"december", 12>>, <<"desember", 12>>, <<"dezember", 12>>, <<"dicembre", 12>>,
     <<"diciembre", 12>>, <<"décembre", 12>>}

\* the month words dates are written with: every name in lower case, the
\* capitalised forms, and a longer word that holds a name
MonthWords ==
    {p[1] : p \in LanguageMonths}
    \cup {p[1] : p \in {q \in CaseForms : \E m \in LanguageMonths : m[1] = q[2]}}
    \cup {"Maison"}

\* "D <month> YYYY"
MonthDates ==
    {Str(<<"15", SP, w, SP, "2024">>) : w \in MonthWords}
    \cup {Str(<<"15.", SP, "Dezember", SP, "2024">>)}

ShapedReferences == {Missing, Null, Str(<<"INV-001">>), Num(7)}

RawRecord(date, reference, net, vat, total) ==
    [f \in FiveKeys |->
        CASE f = "invoiceDate" -> date
          [] f = "invoiceReference" -> reference
          [] f = "netAmount" -> net
          [] f = "vatAmount" -> vat
          [] f = "totalAmount" -> total]

\* records of every shape, and records of three well-shaped amounts
RawRecords ==
    {RawRecord(d, r, n, v, t) :
        d \in ShapedDates, r \in ShapedReferences,
        n \in ShapedAmounts, v \in ShapedAmounts,
        t \in {Null, AmountObj(Num(100), NOK)}}
    \cup
    {RawRecord(Null, Null, n, v, t) :
        n \in GoodAmounts, v \in GoodAmounts, t \in GoodAmounts}
    \cup
    {RawRecord(d, Null, Null, Null, Null) : d \in MonthDates}

\* validate is entered with the argument raw
VEnter(raw) ==
    /\ vraw = raw
    /\ vpc = "call"
    /\ vdata = raw
    /\ vresult = AllAbsent
    /\ vpath = "none"
    /\ vwarnings = <<>>
    /\ vexc = "none"
    /\ vfirst = Null

\* validate has not been called
VIdle ==
    /\ vraw = AllAbsent
    /\ vpc = "idle"
    /\ vdata = AllAbsent
    /\ vresult = AllAbsent
    /\ vpath = "none"
    /\ vwarnings = <<>>
    /\ vexc = "none"
    /\ vfirst = Null

\* processed = self._normalize_date(dict(raw))
VNormalizeDate ==
    /\ vpc = "call"
    /\ vdata' = _normalize_date(vraw)
    /\ vpc' = "normalized"
    /\ UNCHANGED <<vraw, vresult, vpath, vwarnings, vexc, vfirst>>
    /\ UNCHANGED <<svars, evars, rvars, pvars>>

\* result = self._coerce(processed)
VCoerce ==
    /\ vpc = "normalized"
    /\ vresult' = _coerce(vdata).val
    /\ vpath' = _coerce(vdata).path
    /\ vpc' = "coerced"
    /\ UNCHANGED <<vraw, vdata, vwarnings, vexc, vfirst>>
    /\ UNCHANGED <<svars, evars, rvars, pvars>>

\* self._check_totals(result)
VCheckTotals ==
    /\ vpc = "coerced"
    /\ LET c == _check_totals(vresult) IN
        /\ vresult' = c.result
        /\ vwarnings' = vwarnings \o c.warnings
        /\ vpc' = IF c.raised THEN "raised" ELSE "totals_checked"
        /\ vexc' = IF c.raised THEN "decimal.Overflow" ELSE vexc
    /\ UNCHANGED <<vraw, vdata, vpath, vfirst>>
    /\ UNCHANGED <<svars, evars, rvars, pvars>>

\* self._check_negative_amounts(result); return result
VCheckNegative ==
    /\ vpc = "totals_checked"
    /\ LET c == _check_negative_amounts(vresult) IN
        /\ vresult' = c.result
        /\ vwarnings' = vwarnings \o c.warnings
    /\ vpc' = "returned"
    /\ UNCHANGED <<vraw, vdata, vpath, vexc, vfirst>>
    /\ UNCHANGED <<svars, evars, rvars, pvars>>

VNext == VNormalizeDate \/ VCoerce \/ VCheckTotals \/ VCheckNegative

-----------------------------------------------------------------------------
(* _extract_json_object.  A string is a sequence of symbols: the four       *)
(* characters the scanner tells apart, and runs of other characters.        *)

LB == "{"

RB == "}"

QT == "\""

BS == "\\"

\* raw.find("{"), 1-based; 0 when there is none
Find(raw, ch) ==
    IF \E j \in DOMAIN raw : raw[j] = ch
    THEN CHOOSE j \in DOMAIN raw : raw[j] = ch /\ \A m \in 1..(j - 1) : raw[m] # ch
    ELSE 0

\* _extract_json_object is entered with the argument raw
SEnter(raw) ==
    /\ sraw = raw
    /\ spc = "find"
    /\ start = 0
    /\ scan_i = 0
    /\ depth = 0
    /\ in_string = FALSE
    /\ escape_next = FALSE
    /\ sret = Null

\* _extract_json_object has not been called
SIdle ==
    /\ sraw = <<>>
    /\ spc = "idle"
    /\ start = 0
    /\ scan_i = 0
    /\ depth = 0
    /\ in_string = FALSE
    /\ escape_next = FALSE
    /\ sret = Null

\* start = raw.find("{"); return None when -1; initialise the loop
SFind ==
    /\ spc = "find"
    /\ start' = Find(sraw, LB)
    /\ scan_i' = Find(sraw, LB)
    /\ spc' = IF Find(sraw, LB) = 0 THEN "done" ELSE "loop"
    /\ UNCHANGED <<sraw, depth, in_string, escape_next, sret>>
    /\ UNCHANGED <<vvars, evars, rvars, pvars>>

\* the loop without the escape flag: every quote toggles in_string
SIter_no_escape ==
    /\ spc = "loop"
    /\ scan_i <= Len(sraw)
    /\ LET ch == sraw[scan_i] IN
        /\ escape_next' = FALSE
        /\ in_string' = IF ch = QT THEN ~in_string ELSE in_string
        /\ depth' = IF ch = QT \/ in_string THEN depth
                    ELSE IF ch = LB THEN depth + 1
                    ELSE IF ch = RB THEN depth - 1
                    ELSE depth
        /\ IF ch # QT /\ ~in_string /\ ch = RB /\ depth - 1 = 0
           THEN /\ sret' = Str(SubSeq(sraw, start, scan_i))
                /\ spc' = "done"
                /\ scan_i' = scan_i
           ELSE /\ sret' = sret
                /\ spc' = spc
                /\ scan_i' = scan_i + 1
    /\ UNCHANGED <<sraw, start>>
    /\ UNCHANGED <<vvars, evars, rvars, pvars>>

\* the loop with braces counted inside strings too
SIter_counts_in_strings ==
    /\ spc = "loop"
    /\ scan_i <= Len(sraw)
    /\ LET ch == sraw[scan_i]
           escaped == escape_next
           backslash == ~escaped /\ ch = BS /\ in_string
           quote == ~escaped /\ ~backslash /\ ch = QT
           plain == ~escaped /\ ~backslash /\ ~quote
       IN
        /\ escape_next' = backslash
        /\ in_string' = IF quote THEN ~in_string ELSE in_string
        /\ depth' = IF plain /\ ch = LB THEN depth + 1
                    ELSE IF plain /\ ch = RB THEN depth - 1
                    ELSE depth
        /\ IF plain /\ ch = RB /\ depth - 1 = 0
           THEN /\ sret' = Str(SubSeq(sraw, start, scan_i))
                /\ spc' = "done"
                /\ scan_i' = scan_i
           ELSE /\ sret' = sret
                /\ spc' = spc
                /\ scan_i' = scan_i + 1
    /\ UNCHANGED <<sraw, start>>
    /\ UNCHANGED <<vvars, evars, rvars, pvars>>

\* one iteration of: for i in range(start, len(raw))
SIter ==
    /\ spc = "loop"
    /\ scan_i <= Len(sraw)
    /\ LET ch == sraw[scan_i]
           escaped == escape_next
           backslash == ~escaped /\ ch = BS /\ in_string
           quote == ~escaped /\ ~backslash /\ ch = QT
           plain == ~escaped /\ ~backslash /\ ~quote /\ ~in_string
       IN
        /\ escape_next' = backslash
        /\ in_string' = IF quote THEN ~in_string ELSE in_string
        /\ depth' = IF plain /\ ch = LB THEN depth + 1
                    ELSE IF plain /\ ch = RB THEN depth - 1
                    ELSE depth
        /\ IF plain /\ ch = RB /\ depth - 1 = 0
           THEN /\ sret' = Str(SubSeq(sraw, start, scan_i))
                /\ spc' = "done"
                /\ scan_i' = scan_i
           ELSE /\ sret' = sret
                /\ spc' = spc
                /\ scan_i' = scan_i + 1
    /\ UNCHANGED <<sraw, start>>
    /\ UNCHANGED <<vvars, evars, rvars, pvars>>

\* the range is exhausted: return None
SExhaust ==
    /\ spc = "loop"
    /\ scan_i > Len(sraw)
    /\ spc' = "done"
    /\ UNCHANGED <<sraw, start, scan_i, depth, in_string, escape_next, sret>>
    /\ UNCHANGED <<vvars, evars, rvars, pvars>>

SNext == SFind \/ SIter \/ SExhaust

-----------------------------------------------------------------------------
(* json.loads on a string of symbols.  Outside strings a run of ordinary    *)
(* characters is one literal (a number, null, true, false) or no JSON at    *)
(* all; a dict is a function from its keys to its values.                   *)

COLON == ":"

COMMA == ","

LSQ == "["

RSQ == "]"

\* the number literals the model's texts use
NumberWords ==
    [w \in {"1", "42", "100.0", "-100.0"} |->
        CASE w = "1" -> 1 [] w = "42" -> 42 [] w = "100.0" -> 100
          [] w = "-100.0" -> -100]

\* an integer literal of 5000 digits: int() refuses more than 4300
LongInteger == "1111...1 (5000 digits)"

EmptyDict == <<>>

\* the dict key a decoded JSON string stands for; only one-word keys are told
\* apart
KeyOf(symbols) == IF Len(symbols) = 1 THEN symbols[1] ELSE "<compound>"

\* a JSONDecodeError
JFail == [ok |-> FALSE, val |-> Null, next |-> 0, exc |-> "JSONDecodeError"]

\* an exception of another class raised while decoding
JRaise(exc) == [ok |-> FALSE, val |-> Null, next |-> 0, exc |-> exc]

JOk(val, next) == [ok |-> TRUE, val |-> val, next |-> next, exc |-> "none"]

RECURSIVE SkipWs(_, _)
SkipWs(s, j) == IF j <= Len(s) /\ s[j] = SP THEN SkipWs(s, j + 1) ELSE j

\* the rest of a string whose opening quote has been read
RECURSIVE ParseString(_, _, _)
ParseString(s, j, acc) ==
    IF j > Len(s) THEN JFail                      \* unterminated string
    ELSE IF s[j] = QT THEN JOk(Str(acc), j + 1)
    ELSE IF s[j] = BS
    THEN IF j + 1 <= Len(s) /\ s[j + 1] \in {QT, BS}
         THEN ParseString(s, j + 2, Append(acc, s[j + 1]))
         ELSE JFail                               \* invalid \escape
    ELSE ParseString(s, j + 1, Append(acc, s[j]))

RECURSIVE ParseValue(_, _)
RECURSIVE ParseMembers(_, _, _)
RECURSIVE ParseElements(_, _, _)

\* the members of an object, the pairs read so far in acc; a repeated key
\* keeps its last value
ParseMembers(s, j, acc) ==
    IF j > Len(s) \/ s[j] # QT THEN JFail
    ELSE LET key == ParseString(s, j + 1, <<>>) IN
    IF ~key.ok THEN key
    ELSE LET c == SkipWs(s, key.next) IN
    IF c > Len(s) \/ s[c] # COLON THEN JFail
    ELSE LET val == ParseValue(s, SkipWs(s, c + 1)) IN
    IF ~val.ok THEN val
    ELSE LET pairs == (KeyOf(key.val.v) :> val.val) @@ acc
             e == SkipWs(s, val.next)
         IN  IF e > Len(s) THEN JFail
             ELSE IF s[e] = RB THEN JOk(Obj(pairs), e + 1)
             ELSE IF s[e] = COMMA THEN ParseMembers(s, SkipWs(s, e + 1), pairs)
             ELSE JFail

\* the elements of an array, those read so far in acc
ParseElements(s, j, acc) ==
    LET val == ParseValue(s, j) IN
    IF ~val.ok THEN val
    ELSE LET e == SkipWs(s, val.next) IN
         IF e > Len(s) THEN JFail
         ELSE IF s[e] = RSQ THEN JOk([k |-> "list", v |-> Append(acc, val.val)], e + 1)
         ELSE IF s[e] = COMMA
         THEN ParseElements(s, SkipWs(s, e + 1), Append(acc, val.val))
         ELSE JFail

ParseValue(s, j) ==
    IF j > Len(s) THEN JFail
    ELSE IF s[j] = QT THEN ParseString(s, j + 1, <<>>)
    ELSE IF s[j] = LB
    THEN LET m == SkipWs(s, j + 1) IN
         IF m <= Len(s) /\ s[m] = RB THEN JOk(Obj(EmptyDict), m + 1)
         ELSE ParseMembers(s, m, EmptyDict)
    ELSE IF s[j] = LSQ
    THEN LET m == SkipWs(s, j + 1) IN
         IF m <= Len(s) /\ s[m] = RSQ THEN JOk([k |-> "list", v |-> <<>>], m + 1)
         ELSE ParseElements(s, m, <<>>)
    ELSE IF s[j] \in DOMAIN NumberWords THEN JOk(Num(NumberWords[s[j]]), j + 1)
    ELSE IF s[j] = LongInteger THEN JRaise("ValueError")
    ELSE IF s[j] = "null" THEN JOk(Null, j + 1)
    ELSE IF s[j] \in {"true", "false"}
    THEN JOk([k |-> "bool", v |-> s[j] = "true"], j + 1)
    ELSE JFail

\* json.loads(s): one value, whitespace around it, nothing else
json_loads(s) ==
    LET val == ParseValue(s, SkipWs(s, 1)) IN
    IF ~val.ok \/ SkipWs(s, val.next) > Len(s) THEN val ELSE JFail

-----------------------------------------------------------------------------
(* json.dumps, with which the model's texts are written                     *)

\* the order in which a dict's keys are written
KeyOrder ==
    <<"invoiceDate", "invoiceReference", "netAmount", "vatAmount", "totalAmount",
      "amount", "currency", "note", "error", "detail", "status", "model_loaded">>

RECURSIVE Escape(_)
Escape(symbols) ==
    IF symbols = <<>> THEN <<>>
    ELSE (IF Head(symbols) \in {QT, BS} THEN <<BS, Head(symbols)>>
          ELSE <<Head(symbols)>>) \o Escape(Tail(symbols))

RECURSIVE Dump(_)
RECURSIVE DumpMembers(_, _)
RECURSIVE DumpElements(_)

DumpMembers(dict, keys) ==
    IF keys = <<>> THEN <<>>
    ELSE <<QT, Head(keys), QT, COLON, SP>> \o Dump(dict[Head(keys)])
         \o (IF Len(keys) > 1 THEN <<COMMA, SP>> ELSE <<>>)
         \o DumpMembers(dict, Tail(keys))

DumpElements(values) ==
    IF values = <<>> THEN <<>>
    ELSE Dump(Head(values))
         \o (IF Len(values) > 1 THEN <<COMMA, SP>> ELSE <<>>)
         \o DumpElements(Tail(values))

Dump(x) ==
    CASE x.k = "null" -> <<"null">>
      [] x.k = "bool" -> IF x.v THEN <<"true">> ELSE <<"false">>
      [] x.k = "num" ->
            <<CHOOSE w \in DOMAIN NumberWords : NumberWords[w] = x.v>>
      [] x.k = "str" -> <<QT>> \o Escape(x.v) \o <<QT>>
      [] x.k = "list" -> <<LSQ>> \o DumpElements(x.v) \o <<RSQ>>
      [] x.k = "obj" ->
            <<LB>>
            \o DumpMembers(x.v, SelectSeq(KeyOrder, LAMBDA key : key \in DOMAIN x.v))
            \o <<RB>>

-----------------------------------------------------------------------------
(* LLMExtractor.extract_fields and _parse *)

AllNone == [f \in FiveKeys |-> Null]

\* data.get(key) on a parsed object
DictGet(dict, key) == IF key \in DOMAIN dict THEN dict[key] ELSE Null

\* str(content or "")
ContentString(content) == IF content.k = "str" THEN content.v ELSE <<>>

\* the call _extract_json_object(raw)
SCall(raw) ==
    /\ sraw' = raw
    /\ spc' = "find"
    /\ start' = 0
    /\ scan_i' = 0
    /\ depth' = 0
    /\ in_string' = FALSE
    /\ escape_next' = FALSE
    /\ sret' = Null

\* extract_fields is entered; the model will answer with response
EEnter(text, response) ==
    /\ epc = "call"
    /\ etext = text
    /\ eresponse = response
    /\ eraw = <<>>
    /\ edata = Null
    /\ eresult = AllNone
    /\ eexc = "none"

\* extract_fields has not been called
EIdle ==
    /\ epc = "idle"
    /\ etext = Null
    /\ eresponse = Null
    /\ eraw = <<>>
    /\ edata = Null
    /\ eresult = AllNone
    /\ eexc = "none"

\* response = self._model.create_chat_completion(...): no try around it
ECallModel ==
    /\ epc = "call"
    /\ IF eresponse.k = "raises"
       THEN epc' = "raised" /\ eexc' = eresponse.v
       ELSE epc' = "choices" /\ eexc' = eexc
    /\ UNCHANGED <<etext, eresponse, eraw, edata, eresult>>
    /\ UNCHANGED <<vvars, svars, rvars, pvars>>

\* choices = response["choices"]; the all-None record when empty;
\* raw = str(choices[0]["message"]["content"] or "")
EChoices ==
    /\ epc = "choices"
    /\ IF eresponse.v.k = "missing"
       THEN epc' = "raised" /\ eexc' = "KeyError" /\ UNCHANGED <<eraw, eresult>>
       ELSE IF eresponse.v.v = <<>>
       THEN epc' = "returned" /\ eresult' = AllNone /\ UNCHANGED <<eraw, eexc>>
       ELSE IF eresponse.v.v[1].k = "missing"
       THEN epc' = "raised" /\ eexc' = "KeyError" /\ UNCHANGED <<eraw, eresult>>
       ELSE /\ epc' = "parse"
            /\ eraw' = ContentString(eresponse.v.v[1])
            /\ UNCHANGED <<eresult, eexc>>
    /\ UNCHANGED <<etext, eresponse, edata>>
    /\ UNCHANGED <<vvars, svars, rvars, pvars>>

\* _parse with the scanner run also for a parsed value that is not an object
EParse_scan_non_object ==
    /\ epc = "parse"
    /\ LET obj == json_loads(eraw) IN
        IF obj.ok /\ obj.val.k = "obj"
        THEN /\ edata' = obj.val
             /\ epc' = "assign"
             /\ UNCHANGED <<svars, eexc>>
        ELSE IF obj.ok \/ obj.exc = "JSONDecodeError"
        THEN /\ SCall(eraw)
             /\ epc' = "scan"
             /\ UNCHANGED <<edata, eexc>>
        ELSE /\ epc' = "raised"
             /\ eexc' = obj.exc
             /\ UNCHANGED <<svars, edata>>
    /\ UNCHANGED <<etext, eresponse, eraw, eresult>>
    /\ UNCHANGED <<vvars, rvars, pvars>>

\* _parse: obj = json.loads(raw); on JSONDecodeError call the scanner; an
\* exception of another class leaves _parse and extract_fields
EParse ==
    /\ epc = "parse"
    /\ LET obj == json_loads(eraw) IN
        IF obj.ok
        THEN /\ edata' = IF obj.val.k = "obj" THEN obj.val ELSE Null
             /\ epc' = "assign"
             /\ UNCHANGED <<svars, eexc>>
        ELSE IF obj.exc = "JSONDecodeError"
        THEN /\ SCall(eraw)
             /\ epc' = "scan"
             /\ UNCHANGED <<edata, eexc>>
        ELSE /\ epc' = "raised"
             /\ eexc' = obj.exc
             /\ UNCHANGED <<svars, edata>>
    /\ UNCHANGED <<etext, eresponse, eraw, eresult>>
    /\ UNCHANGED <<vvars, rvars, pvars>>

\* _parse: if extracted: obj = json.loads(extracted), JSONDecodeError passed
EParseExtracted ==
    /\ epc = "scan"
    /\ spc = "done"
    /\ LET obj == IF sret.k = "str" /\ sret.v # <<>>
                  THEN json_loads(sret.v) ELSE JFail
       IN  IF obj.ok \/ obj.exc = "JSONDecodeError"
           THEN /\ edata' = IF obj.ok /\ obj.val.k = "obj" THEN obj.val ELSE Null
                /\ epc' = "assign"
                /\ UNCHANGED eexc
           ELSE /\ epc' = "raised"
                /\ eexc' = obj.exc
                /\ UNCHANGED edata
    /\ UNCHANGED <<etext, eresponse, eraw, eresult>>
    /\ UNCHANGED <<vvars, svars, rvars, pvars>>

\* _parse with amounts that are not objects replaced by None
EAssign_amounts_checked ==
    /\ epc = "assign"
    /\ eresult' = IF edata.k = "obj"
                  THEN [f \in FiveKeys |->
                          IF f \in {"netAmount", "vatAmount", "totalAmount"}
                             /\ DictGet(edata.v, f).k # "obj"
                          THEN Null ELSE DictGet(edata.v, f)]
                  ELSE AllNone
    /\ epc' = "returned"
    /\ UNCHANGED <<etext, eresponse, eraw, edata, eexc>>
    /\ UNCHANGED <<vvars, svars, rvars, pvars>>

\* _parse: if data is not None: result[key] = data.get(key), five times
EAssign ==
    /\ epc = "assign"
    /\ eresult' = IF edata.k = "obj"
                  THEN [f \in FiveKeys |-> DictGet(edata.v, f)]
                  ELSE AllNone
    /\ epc' = "returned"
    /\ UNCHANGED <<etext, eresponse, eraw, edata, eexc>>
    /\ UNCHANGED <<vvars, svars, rvars, pvars>>

ENext ==
    \/ ECallModel \/ EChoices \/ EParse \/ EParseExtracted \/ EAssign
    \/ SFind \/ SIter \/ SExhaust

-----------------------------------------------------------------------------
(* What the model answers *)

EurAmount == DictOf([amount |-> Num(100), currency |-> EUR])

\* the payload of the tests: all five keys
FullPayload ==
    DictOf([invoiceDate |-> Str(<<"2024-01-15">>),
            invoiceReference |-> Str(<<"INV-001">>),
            netAmount |-> EurAmount, vatAmount |-> EurAmount,
            totalAmount |-> EurAmount])

\* objects that lack keys, hold an unknown key, hold values of other shapes,
\* and hold braces and quotes inside a string
PartialPayloads ==
    {DictOf([invoiceDate |-> d, invoiceReference |-> r, netAmount |-> n, note |-> x]) :
        d \in {Missing, Null, Str(<<"2024-03-10">>)},
        r \in {Missing, Str(<<"REF-456">>), Str(<<"INV", SP, QT, "special", QT>>),
               Str(<<QT, RB, LB, BS>>)},
        n \in {Missing, EurAmount, Str(<<"n/a">>)},
        x \in {Missing, Num(1)}}

DictPayloads == {FullPayload} \cup PartialPayloads

OtherPayloads ==
    {[k |-> "list", v |-> <<>>], [k |-> "list", v |-> <<FullPayload>>],
     Num(42), Str(<<"INV-001">>), Null, [k |-> "bool", v |-> TRUE]}

Prefixes ==
    {<<>>,
     <<"Here", SP, "is", SP, "the", SP, "result", COLON, SP>>,
     <<"the", SP, QT, "data", COLON, SP>>,
     <<"see", SP, LB, "x", RB, COLON, SP>>}

Suffixes ==
    {<<>>,
     <<SP, "End.">>,
     <<SP, RB, QT>>,
     <<SP, "and", SP, "also", COLON, SP>>
        \o Dump(DictOf([invoiceDate |-> Str(<<"2024-08-01">>),
                        invoiceReference |-> Str(<<"SECOND">>)]))}

\* texts that hold no JSON value, or one that holds a number too long to decode
BrokenTexts ==
    {<<>>,
     <<"I", SP, "cannot", SP, "parse", SP, "this.">>,
     <<"Result", COLON, SP, LB, "broken", SP, "json", SP, "here", RB>>,
     <<"Here", SP, "is", SP, "the", SP, "result", COLON, SP, LB, "unclosed">>,
     <<LB, QT, "invoiceDate", QT, COLON, SP, QT, "unclosed", RB>>,
     <<LongInteger>>,
     <<"Total", COLON, SP, LB, QT, "invoiceReference", QT, COLON, SP,
       LongInteger, RB>>}

Composed(pre, payload, post) == [pre |-> pre, payload |-> payload, post |-> post]

Texts ==
    {Composed(pre, payload, post) :
        pre \in Prefixes, payload \in DictPayloads \cup OtherPayloads,
        post \in Suffixes}
    \cup {Composed(w, Missing, <<>>) : w \in BrokenTexts}

\* the string the model wrote
TextOf(text) ==
    text.pre
    \o (IF text.payload.k = "missing" THEN <<>> ELSE Dump(text.payload))
    \o text.post

\* a CreateChatCompletionResponse whose choices hold these contents
Response(contents) == [k |-> "dict", v |-> [k |-> "list", v |-> contents]]

\* the model's behaviours: one choice with the text; no choice; a None or
\* empty content; more choices; a response without "choices" or a choice
\* without content; a call that raises
Responses(text) ==
    {Response(<<Str(TextOf(text))>>)}
    \cup (IF text = Composed(<<>>, FullPayload, <<>>)
          THEN {Response(<<>>), Response(<<Null>>), Response(<<Str(<<>>)>>),
                Response(<<Str(TextOf(text)), Str(<<"42">>)>>),
                Response(<<Str(<<"42">>), Str(TextOf(text))>>),
                [k |-> "dict", v |-> Missing], Response(<<Missing>>),
                [k |-> "raises", v |-> "RuntimeError"]}
          ELSE {})

-----------------------------------------------------------------------------
(* SmartPDFExtractor.extract (the Extraction Router).  A text is known by   *)
(* where it came from and by its length.                                    *)

_MIN_TEXT_CHARS_PER_PAGE == 50

TextValue(src, len) == [k |-> "text", src |-> src, len |-> len]

RECURSIVE Sum(_)
Sum(lens) == IF lens = <<>> THEN 0 ELSE Head(lens) + Sum(Tail(lens))

\* len("\n\n".join(texts)) for page texts of these lengths
JoinedLen(lens) == IF lens = <<>> THEN 0 ELSE Sum(lens) + 2 * (Len(lens) - 1)

\* what a call returns or raises
Returned(val) == [raised |-> FALSE, exc |-> "none", val |-> val]

Raised(exc) == [raised |-> TRUE, exc |-> exc, val |-> Null]

\* PlumberExtractor.extract_text_and_page_count; a file of kind "patched" is
\* read by a patched extractor that returns what the file says
extract_text_and_page_count(file) ==
    CASE file.k = "empty" -> Raised("ValueError")
      [] file.k = "corrupt" -> Raised("PDFSyntaxError")
      [] file.k = "patched" ->
            Returned([text |-> TextValue("embedded", file.text_len),
                      page_count |-> file.page_count])
      [] OTHER ->
            Returned([text |-> TextValue("embedded", JoinedLen(file.pages)),
                      page_count |-> Len(file.pages)])

\* PaddleOCRExtractor.extract_text
ocr_extract_text(file) ==
    IF file.ocr.k = "raises" THEN Raised(file.ocr.v)
    ELSE Returned(TextValue("ocr", file.ocr.v))

\* _is_text_based with > in place of >=
_is_text_based_strict(text, count, min_chars_per_page) ==
    IF count > 0 THEN text.len > min_chars_per_page * count ELSE FALSE

\* (len(text) / page_count) >= min_chars_per_page if page_count > 0 else False
_is_text_based(text, count, min_chars_per_page) ==
    IF count > 0 THEN text.len >= min_chars_per_page * count ELSE FALSE

ExtractionResult(text, path) == [k |-> "ExtractionResult", text |-> text, path |-> path]

\* the call self._pdf.extract(file_bytes)
RCall(file) ==
    /\ rpc' = "plumber"
    /\ rfile' = file
    /\ rtext' = Null
    /\ page_count' = 0
    /\ rresult' = Null
    /\ rexc' = "none"
    /\ rran' = <<>>

\* if not file_bytes: raise ValueError, before pdfplumber.open(...)
Opens(file) == file.k # "empty"

\* extract with optical recognition as the fallback when the plumber raises
RPlumber_falls_back ==
    /\ rpc = "plumber"
    /\ LET out == extract_text_and_page_count(rfile) IN
        IF out.raised
        THEN rpc' = "ocr" /\ rexc' = rexc /\ UNCHANGED <<rtext, page_count>>
        ELSE /\ rpc' = "classify"
             /\ rtext' = out.val.text
             /\ page_count' = out.val.page_count
             /\ UNCHANGED rexc
    /\ rran' = IF Opens(rfile) THEN Append(rran, "pdfplumber.open") ELSE rran
    /\ UNCHANGED <<rfile, rresult>>
    /\ UNCHANGED <<vvars, svars, evars, pvars>>

\* text, page_count = self._plumber.extract_text_and_page_count(file_bytes)
RPlumber ==
    /\ rpc = "plumber"
    /\ LET out == extract_text_and_page_count(rfile) IN
        IF out.raised
        THEN rpc' = "raised" /\ rexc' = out.exc /\ UNCHANGED <<rtext, page_count>>
        ELSE /\ rpc' = "classify"
             /\ rtext' = out.val.text
             /\ page_count' = out.val.page_count
             /\ UNCHANGED rexc
    /\ rran' = IF Opens(rfile) THEN Append(rran, "pdfplumber.open") ELSE rran
    /\ UNCHANGED <<rfile, rresult>>
    /\ UNCHANGED <<vvars, svars, evars, pvars>>

\* if _is_text_based(...): return ExtractionResult(text=text, path="text")
RClassify ==
    /\ rpc = "classify"
    /\ IF _is_text_based(rtext, page_count, pipeline._pdf._min_chars)
       THEN rpc' = "returned" /\ rresult' = ExtractionResult(rtext, "text")
       ELSE rpc' = "ocr" /\ UNCHANGED rresult
    /\ UNCHANGED <<rfile, rtext, page_count, rexc, rran>>
    /\ UNCHANGED <<vvars, svars, evars, pvars>>

\* return ExtractionResult(text=ocr.extract_text(file_bytes), path="ocr")
ROcr ==
    /\ rpc = "ocr"
    /\ LET out == ocr_extract_text(rfile) IN
        IF out.raised
        THEN rpc' = "raised" /\ rexc' = out.exc /\ UNCHANGED rresult
        ELSE /\ rpc' = "returned"
             /\ rresult' = ExtractionResult(out.val, "ocr")
             /\ UNCHANGED rexc
    /\ rran' = Append(rran, "ocr.extract_text")
    /\ UNCHANGED <<rfile, rtext, page_count>>
    /\ UNCHANGED <<vvars, svars, evars, pvars>>

RNext == RPlumber \/ RClassify \/ ROcr

-----------------------------------------------------------------------------
(* Pipeline.run and the /extract handler's response *)

\* the call self._llm.extract_fields(extraction.text)
ECall(text, response) ==
    /\ epc' = "call"
    /\ etext' = text
    /\ eresponse' = response
    /\ eraw' = <<>>
    /\ edata' = Null
    /\ eresult' = AllNone
    /\ eexc' = "none"

\* the call self._validator.validate(dict(raw))
VCall(raw) ==
    /\ vraw' = raw
    /\ vpc' = "call"
    /\ vdata' = raw
    /\ vresult' = AllAbsent
    /\ vpath' = "none"
    /\ vwarnings' = <<>>
    /\ vexc' = "none"
    /\ vfirst' = vfirst

\* date.isoformat()
IsoFormat(d) ==
    IF \E w \in DOMAIN IsoDates : IsoDates[w] = d
    THEN <<CHOOSE w \in DOMAIN IsoDates : IsoDates[w] = d>>
    ELSE <<ToString(d.y), "-", ToString(d.m), "-", ToString(d.d)>>

\* str(Decimal)
DecimalToString(n) ==
    IF \E w \in DOMAIN DecimalStrings : DecimalStrings[w] = n
    THEN CHOOSE w \in DOMAIN DecimalStrings : DecimalStrings[w] = n
    ELSE ToString(n)

\* the JSON-mode value of a field
JsonValue(x) ==
    CASE x.k = "date" -> Str(IsoFormat(x.v))
      [] x.k = "money" ->
            Obj([key \in {"amount", "currency"} |->
                    IF key = "amount" THEN Str(<<DecimalToString(x.v.amount)>>)
                    ELSE x.v.currency])
      [] OTHER -> x

\* model_dump(mode="json", exclude_none=True)
model_dump_exclude_none(result) ==
    Obj([f \in {x \in FiveKeys : result[x] # Null} |-> JsonValue(result[f])])

\* result.model_dump(mode="json")
model_dump(result) == Obj([f \in FiveKeys |-> JsonValue(result[f])])

\* JSONResponse(content, status_code): the body is the rendered content
JSONResponse(content, status_code) ==
    [k |-> "response", status |-> status_code, body |-> Dump(content)]

\* the documents a request can carry
MaxPages == 2

PageChars == {0, 49, 50, 100}

RECURSIVE PagesUpTo(_)
PagesUpTo(n) ==
    IF n = 0 THEN {<<>>}
    ELSE LET shorter == PagesUpTo(n - 1) IN
         shorter \cup {Append(p, c) : p \in {x \in shorter : Len(x) = n - 1},
                                      c \in PageChars}

OcrOutcomes ==
    {[k |-> "raises", v |-> "RuntimeError"], [k |-> "text", v |-> 0],
     [k |-> "text", v |-> 120]}

Files ==
    {[k |-> "empty"], [k |-> "corrupt"]}
    \cup {[k |-> "pdf", pages |-> p, ocr |-> o] :
            p \in PagesUpTo(MaxPages), o \in OcrOutcomes}
    \cup {[k |-> "patched", text_len |-> n, page_count |-> 0, ocr |-> o] :
            n \in {17, 100}, o \in OcrOutcomes}

\* what the model answers in a run of the pipeline
NokAmount(amount) == DictOf([amount |-> amount, currency |-> NOK])

PipelinePayloads ==
    {FullPayload,
     DictOf([invoiceDate |-> Str(<<"15.", SP, "Januar", SP, "2024">>),
             invoiceReference |-> Num(42),
             netAmount |-> NokAmount(Num(100)),
             vatAmount |-> NokAmount(Num(-100)),
             totalAmount |-> DictOf([amount |-> Num(100)])]),
     DictOf([netAmount |-> NokAmount(Str(<<"6E+999999">>)),
             vatAmount |-> NokAmount(Str(<<"6E+999999">>)),
             totalAmount |-> NokAmount(Num(100))])}

PipelineTexts ==
    {Composed(<<>>, payload, <<>>) : payload \in PipelinePayloads}
    \cup {Composed(<<"Here", SP, "is", SP, "the", SP, "result", COLON, SP>>,
                   FullPayload, <<SP, "End.">>),
          Composed(<<"I", SP, "cannot", SP, "parse", SP, "this.">>, Missing, <<>>),
          Composed(<<"Result", COLON, SP, LB, "unclosed">>, Missing, <<>>)}

Answers ==
    UNION {{[text |-> text, response |-> response] : response \in Responses(text)} :
            text \in PipelineTexts}

\* a loaded model, known by what it can answer
Llama(answers) == [k |-> "Llama", answers |-> answers]

-----------------------------------------------------------------------------
(* The application around the pipeline: the model-loaded gate, the API-key  *)
(* dependency, validate_pdf and the exception handlers.  A path is the      *)
(* sequence of its segments, a header value a sequence of characters.       *)

max_file_size_mb == 10

\* max_size_mb * 1024 * 1024
MaxBytes(max_size_mb) == max_size_mb * 1024 * 1024

_PDF_MAGIC == <<"%", "P", "D", "F">>

\* words joined by single spaces
RECURSIVE Sentence(_)
Sentence(words) ==
    IF Len(words) <= 1 THEN words
    ELSE <<Head(words), SP>> \o Sentence(Tail(words))

ExtractPath == <<"api", "v1", "extract">>

HealthPath == <<"health">>

\* request.url.path.startswith("/api/")
StartsWithApi(path) == Len(path) >= 2 /\ path[1] = "api"

\* settings.api_key
ApiKey == <<"k", "e", "y">>

IsAscii(chars) == \A i \in DOMAIN chars : chars[i] # "é"

\* hmac.compare_digest on two str: TypeError unless both are ASCII
compare_digest(a, b) ==
    IF IsAscii(a) /\ IsAscii(b) THEN Returned(a = b) ELSE Raised("TypeError")

\* Header(default=""): the header's value, "" when the request has none
HeaderValue(header) == IF header.k = "missing" THEN <<>> ELSE header.v

\* an HTTPException
HTTPException(status_code, detail) ==
    [k |-> "HTTPException", status |-> status_code, detail |-> detail]

\* an exception of a class no handler is registered for
Unhandled(class) == [k |-> "unhandled", v |-> class]

\* verify_api_key
verify_api_key(header) ==
    LET same == compare_digest(HeaderValue(header), ApiKey) IN
    IF same.raised THEN Raised(Unhandled(same.exc))
    ELSE IF ~same.val
    THEN Raised(HTTPException(401,
            Str(Sentence(<<"Invalid", "or", "missing", "API", "key">>))))
    ELSE Returned(Null)

\* validate_pdf with the magic bytes checked before the size
validate_pdf_magic_first(content_type, file_bytes, max_size_mb) ==
    IF content_type # Str(<<"application/pdf">>)
    THEN Raised("InvalidContentTypeError")
    ELSE IF file_bytes.head # _PDF_MAGIC
    THEN Raised("InvalidMagicBytesError")
    ELSE IF file_bytes.size > MaxBytes(max_size_mb)
    THEN Raised("FileTooLargeError")
    ELSE Returned(Null)

\* validate_pdf; file_bytes is known by its first four bytes and its length
validate_pdf(content_type, file_bytes, max_size_mb) ==
    IF content_type # Str(<<"application/pdf">>)
    THEN Raised("InvalidContentTypeError")
    ELSE IF file_bytes.size > MaxBytes(max_size_mb)
    THEN Raised("FileTooLargeError")
    ELSE IF file_bytes.head # _PDF_MAGIC
    THEN Raised("InvalidMagicBytesError")
    ELSE Returned(Null)

\* str(e) of the PDFValidationError raised by validate_pdf
ErrorMessage(class) ==
    CASE class = "InvalidContentTypeError" ->
            Str(Sentence(<<"File", "must", "be", "a", "PDF">>))
      [] class = "FileTooLargeError" ->
            Str(Sentence(<<"File", "exceeds", "maximum", "size", "of",
                           ToString(max_file_size_mb), "MB">>))
      [] class = "InvalidMagicBytesError" ->
            Str(Sentence(<<"File", "does", "not", "appear", "to", "be", "a", "PDF">>))

\* the except clauses of extract: the status of each PDFValidationError
StatusOf(class) == IF class = "FileTooLargeError" THEN 413 ELSE 400

\* the fixed body of unhandled_exception_handler
InternalFailure ==
    Obj([key \in {"error"} |-> Str(Sentence(<<"Internal", "processing", "failure">>))])

\* what clients send: uploads
ContentTypes == {Null, Str(<<"application/pdf">>), Str(<<"text/plain">>)}

FileBytes ==
    {[head |-> <<>>, size |-> 0],
     [head |-> <<"%", "P", "D">>, size |-> 3]}
    \cup {[head |-> h, size |-> n] :
            h \in {_PDF_MAGIC, <<"N", "O", "T", "P">>},
            n \in {4, MaxBytes(max_file_size_mb), MaxBytes(max_file_size_mb) + 1}}

\* the documents behind uploads that are PDFs
Documents ==
    {[k |-> "corrupt"],
     [k |-> "pdf", pages |-> <<100>>, ocr |-> [k |-> "text", v |-> 0]],
     [k |-> "pdf", pages |-> <<0>>, ocr |-> [k |-> "text", v |-> 120]],
     [k |-> "pdf", pages |-> <<0>>, ocr |-> [k |-> "raises", v |-> "RuntimeError"]]}

Uploads ==
    UNION {{[content_type |-> c, file_bytes |-> b, document |-> d] :
                d \in (IF c = Str(<<"application/pdf">>) /\ b.head = _PDF_MAGIC
                          /\ b.size <= MaxBytes(max_file_size_mb)
                       THEN Documents ELSE {Null})} :
            c \in ContentTypes, b \in FileBytes}

ApiKeyHeaders ==
    {Missing, Str(<<>>), Str(<<"k", "e">>), Str(<<"k", "e", "x">>),
     Str(<<"k", "e", "y", "s">>), Str(<<"k", "é", "y">>), Str(ApiKey)}

Paths == {ExtractPath, HealthPath, <<"api", "v2", "other">>, <<"other">>}

Requests ==
    {[path |-> p, api_key |-> a, upload |-> u] :
        p \in Paths, a \in ApiKeyHeaders, u \in Uploads}

\* a request arrives while app.state.model_loaded has the value loaded
HReceive(request, loaded) ==
    /\ hpc = "received"
    /\ hreq = request
    /\ model_loaded = loaded
    /\ hran = <<>>
    /\ hexc = Null
    /\ hlog = <<>>

\* the gate that blocks only the extract route
HGate_extract_only ==
    /\ hpc = "received"
    /\ hran' = Append(hran, "gate")
    /\ IF hreq.path = ExtractPath /\ ~model_loaded
       THEN /\ hresponse' = JSONResponse(
                    Obj([key \in {"error"} |->
                        Str(Sentence(<<"Service", "unavailable:", "model", "is",
                                       "loading">>))]), 503)
            /\ hpc' = "done"
       ELSE /\ hpc' = "routing"
            /\ UNCHANGED hresponse
    /\ UNCHANGED <<hreq, model_loaded, hexc, hlog>>
    /\ UNCHANGED <<ppc, pcalls, pret, pexc>>
    /\ UNCHANGED <<vvars, svars, evars, rvars, xvars>>

\* require_model_loaded
HGate ==
    /\ hpc = "received"
    /\ hran' = Append(hran, "gate")
    /\ IF StartsWithApi(hreq.path) /\ ~model_loaded
       THEN /\ hresponse' = JSONResponse(
                    Obj([key \in {"error"} |->
                        Str(Sentence(<<"Service", "unavailable:", "model", "is",
                                       "loading">>))]), 503)
            /\ hpc' = "done"
       ELSE /\ hpc' = "routing"
            /\ UNCHANGED hresponse
    /\ UNCHANGED <<hreq, model_loaded, hexc, hlog>>
    /\ UNCHANGED <<ppc, pcalls, pret, pexc>>
    /\ UNCHANGED <<vvars, svars, evars, rvars, xvars>>

\* health
HHealth ==
    /\ hpc = "routing"
    /\ hreq.path = HealthPath
    /\ hran' = Append(hran, "health")
    /\ hresponse' = JSONResponse(
            Obj([key \in {"status", "model_loaded"} |->
                IF key = "status" THEN Str(<<"ok">>)
                ELSE [k |-> "bool", v |-> model_loaded]]), 200)
    /\ hpc' = "done"
    /\ UNCHANGED <<hreq, model_loaded, hexc, hlog>>
    /\ UNCHANGED <<ppc, pcalls, pret, pexc>>
    /\ UNCHANGED <<vvars, svars, evars, rvars, xvars>>

\* no route has the path: the framework answers 404
HNotFound ==
    /\ hpc = "routing"
    /\ hreq.path \notin {ExtractPath, HealthPath}
    /\ hresponse' = JSONResponse(
            Obj([key \in {"detail"} |-> Str(Sentence(<<"Not", "Found">>))]), 404)
    /\ hpc' = "done"
    /\ UNCHANGED <<hreq, model_loaded, hran, hexc, hlog>>
    /\ UNCHANGED <<ppc, pcalls, pret, pexc>>
    /\ UNCHANGED <<vvars, svars, evars, rvars, xvars>>

\* the router's dependency verify_api_key
HAuth ==
    /\ hpc = "routing"
    /\ hreq.path = ExtractPath
    /\ hran' = Append(hran, "verify_api_key")
    /\ LET out == verify_api_key(hreq.api_key) IN
        IF out.raised
        THEN hpc' = "raised" /\ hexc' = out.exc
        ELSE hpc' = "handler" /\ UNCHANGED hexc
    /\ UNCHANGED <<hreq, model_loaded, hlog>>
    /\ UNCHANGED <<ppc, pcalls, pret, pexc, hresponse>>
    /\ UNCHANGED <<vvars, svars, evars, rvars, xvars>>

\* the record of logger.info("extract complete", extra={...})
LogRecord(status_code, outcome, extraction_path, null) ==
    [status_code |-> status_code, outcome |-> outcome,
     extraction_path |-> extraction_path, null_fields |-> null]

_null_fields(result) == SelectSeq(_INVOICE_FIELDS, LAMBDA f : result[f] = Null)

_outcome(null) == IF null # <<>> THEN "partial" ELSE "success"

\* extract: file_bytes = await file.read(); validate_pdf(...) and its except
\* clauses, which set status_code and raise; the finally clause then logs
HValidatePdf ==
    /\ hpc = "handler"
    /\ hran' = Append(hran, "validate_pdf")
    /\ LET out == validate_pdf(hreq.upload.content_type, hreq.upload.file_bytes,
                               max_file_size_mb)
       IN  IF out.raised
           THEN /\ hpc' = "raised"
                /\ hexc' = HTTPException(StatusOf(out.exc), ErrorMessage(out.exc))
                /\ hlog' = Append(hlog, LogRecord(StatusOf(out.exc), Null, Null, <<>>))
           ELSE /\ hpc' = "accepted"
                /\ UNCHANGED <<hexc, hlog>>
    /\ UNCHANGED <<hreq, model_loaded>>
    /\ UNCHANGED <<ppc, pcalls, pret, pexc, hresponse>>
    /\ UNCHANGED <<vvars, svars, evars, rvars, xvars>>

\* extract: pipeline = request.app.state.pipeline, an AttributeError when
\* it was never set; result, extraction_path = pipeline.run(file_bytes), the
\* call
HCallPipeline ==
    /\ hpc = "accepted"
    /\ ppc = "idle"
    /\ IF pipeline = Null
       THEN /\ hpc' = "raised"
            /\ hexc' = Unhandled("AttributeError")
            /\ hlog' = Append(hlog, LogRecord(500, Null, Null, <<>>))
            /\ UNCHANGED <<hran, ppc>>
       ELSE /\ hran' = Append(hran, "pipeline")
            /\ hpc' = "pipeline"
            /\ ppc' = "call"
            /\ UNCHANGED <<hexc, hlog>>
    /\ UNCHANGED <<hreq, model_loaded>>
    /\ UNCHANGED <<pcalls, pret, pexc, hresponse>>
    /\ UNCHANGED <<vvars, svars, evars, rvars, xvars>>

\* http_exception_handler
HHttpException ==
    /\ hpc = "raised"
    /\ hexc.k = "HTTPException"
    /\ hresponse = Null
    /\ hresponse' = JSONResponse(Obj([key \in {"error"} |-> hexc.detail]), hexc.status)
    /\ hpc' = "done"
    /\ UNCHANGED <<hreq, model_loaded, hran, hexc, hlog>>
    /\ UNCHANGED <<ppc, pcalls, pret, pexc>>
    /\ UNCHANGED <<vvars, svars, evars, rvars, xvars>>

-----------------------------------------------------------------------------
(* lifespan: the application's startup *)

\* the Settings object: config.py defines no model_n_ctx and no
\* model_n_gpu_layers, which lifespan reads; the test of lifespan expects
\* settings that have them.  init_model returns the model or raises.
LEnvs ==
    {[has_model_options |-> has, init_model |-> out] :
        has \in BOOLEAN,
        out \in {Returned(Llama(Answers)), Raised("OSError"), Raised("ValueError")}}

\* Pipeline(pdf=SmartPDFExtractor(...), llm=llm, validator=InvoiceValidator())
PipelineOf(llm) ==
    [k |-> "Pipeline",
     _pdf |-> [_min_chars |-> _MIN_TEXT_CHARS_PER_PAGE],
     _llm |-> [_model |-> llm],
     _validator |-> "InvoiceValidator"]

\* lifespan is not running: the application serves with a pipeline in place
LIdle ==
    /\ lpc = "idle"
    /\ lenv = Null
    /\ pipeline = PipelineOf(Llama(Answers))
    /\ lexc = "none"
    /\ parked = Null

\* application.state.model_loaded = False
LStart ==
    /\ lpc = "call"
    /\ model_loaded' = FALSE
    /\ lpc' = "try"
    /\ UNCHANGED <<lenv, pipeline, lexc>>
    /\ UNCHANGED <<hpc, hreq, hran, hexc, hlog>>
    /\ UNCHANGED <<ppc, pcalls, pret, pexc, hresponse>>
    /\ UNCHANGED <<vvars, svars, evars, rvars, parked>>

\* llm = LLMExtractor(init_model(..., n_ctx=settings.model_n_ctx, ...)); an
\* exception is logged and raised again by the except clause
LInitModel ==
    /\ lpc = "try"
    /\ LET out == IF lenv.has_model_options THEN lenv.init_model
                  ELSE Raised("AttributeError")
       IN  IF out.raised
           THEN lpc' = "raised" /\ lexc' = out.exc
           ELSE lpc' = "model" /\ UNCHANGED lexc
    /\ UNCHANGED <<lenv, pipeline>>
    /\ UNCHANGED <<hpc, hreq, model_loaded, hran, hexc, hlog>>
    /\ UNCHANGED <<ppc, pcalls, pret, pexc, hresponse>>
    /\ UNCHANGED <<vvars, svars, evars, rvars, parked>>

\* lifespan with the flag set where the pipeline should be stored
LStorePipeline_flag_first ==
    /\ lpc = "model"
    /\ model_loaded' = TRUE
    /\ lpc' = "stored"
    /\ UNCHANGED <<lenv, lexc, pipeline>>
    /\ UNCHANGED <<hpc, hreq, hran, hexc, hlog>>
    /\ UNCHANGED <<ppc, pcalls, pret, pexc, hresponse>>
    /\ UNCHANGED <<vvars, svars, evars, rvars, parked>>

\* application.state.pipeline = Pipeline(...)
LStorePipeline ==
    /\ lpc = "model"
    /\ pipeline' = PipelineOf(lenv.init_model.val)
    /\ lpc' = "stored"
    /\ UNCHANGED <<lenv, lexc>>
    /\ UNCHANGED <<hpc, hreq, model_loaded, hran, hexc, hlog>>
    /\ UNCHANGED <<ppc, pcalls, pret, pexc, hresponse>>
    /\ UNCHANGED <<vvars, svars, evars, rvars, parked>>

\* application.state.model_loaded = True; yield
LSetLoaded ==
    /\ lpc = "stored"
    /\ model_loaded' = TRUE
    /\ lpc' = "yielded"
    /\ UNCHANGED <<lenv, pipeline, lexc>>
    /\ UNCHANGED <<hpc, hreq, hran, hexc, hlog>>
    /\ UNCHANGED <<ppc, pcalls, pret, pexc, hresponse>>
    /\ UNCHANGED <<vvars, svars, evars, rvars, parked>>

\* after startup the server hands a request to the application
HArrive ==
    /\ lpc = "yielded"
    /\ hpc = "idle"
    /\ \E request \in Requests : hreq' = request
    /\ hpc' = "received"
    /\ UNCHANGED <<model_loaded, hran, hexc, hlog>>
    /\ UNCHANGED <<lvars, parked>>
    /\ UNCHANGED <<ppc, pcalls, pret, pexc, hresponse>>
    /\ UNCHANGED <<vvars, svars, evars, rvars>>

LNext == LStart \/ LInitModel \/ LStorePipeline \/ LSetLoaded

\* run is entered
PEnter ==
    /\ ppc = "call"
    /\ pcalls = <<>>
    /\ pret = Null
    /\ pexc = "none"
    /\ hresponse = Null

\* extraction = self._pdf.extract(file_bytes): the call; the file is the
\* request's upload when run is called for a request
PCallExtract ==
    /\ ppc = "call"
    /\ \E file \in (IF hreq = Null THEN Files ELSE {hreq.upload.document}) :
        /\ RCall(file)
        /\ pcalls' = Append(pcalls, <<"pdf", file>>)
    /\ ppc' = "extract"
    /\ UNCHANGED <<pret, pexc, hresponse>>
    /\ UNCHANGED <<vvars, svars, evars>>
    /\ UNCHANGED <<hvars, xvars>>

\* PExtractRaised for a run that goes on with an empty text
PExtractRaised_swallowed ==
    /\ ppc = "extract"
    /\ rpc = "raised"
    /\ \E answer \in pipeline._llm._model.answers :
        ECall(answer.text, answer.response)
    /\ pcalls' = Append(pcalls, <<"llm", TextValue("none", 0)>>)
    /\ ppc' = "llm"
    /\ UNCHANGED <<pret, pexc, hresponse>>
    /\ UNCHANGED <<vvars, svars, rvars>>
    /\ UNCHANGED <<hvars, xvars>>

\* self._pdf.extract raised: the exception leaves run
PExtractRaised ==
    /\ ppc = "extract"
    /\ rpc = "raised"
    /\ ppc' = "raised"
    /\ pexc' = rexc
    /\ UNCHANGED <<pcalls, pret, hresponse>>
    /\ UNCHANGED <<vvars, svars, evars, rvars>>
    /\ UNCHANGED <<hvars, xvars>>

\* raw = self._llm.extract_fields(extraction.text): the call
PCallLLM ==
    /\ ppc = "extract"
    /\ rpc = "returned"
    /\ \E answer \in pipeline._llm._model.answers :
        ECall(answer.text, answer.response)
    /\ pcalls' = Append(pcalls, <<"llm", rresult.text>>)
    /\ ppc' = "llm"
    /\ UNCHANGED <<pret, pexc, hresponse>>
    /\ UNCHANGED <<vvars, svars, rvars>>
    /\ UNCHANGED <<hvars, xvars>>

\* self._llm.extract_fields raised: the exception leaves run
PLLMRaised ==
    /\ ppc = "llm"
    /\ epc = "raised"
    /\ ppc' = "raised"
    /\ pexc' = eexc
    /\ UNCHANGED <<pcalls, pret, hresponse>>
    /\ UNCHANGED <<vvars, svars, evars, rvars>>
    /\ UNCHANGED <<hvars, xvars>>

\* result = self._validator.validate(dict(raw)): the call
PCallValidate ==
    /\ ppc = "llm"
    /\ epc = "returned"
    /\ VCall(eresult)
    /\ pcalls' = Append(pcalls, <<"validator", eresult>>)
    /\ ppc' = "validate"
    /\ UNCHANGED <<pret, pexc, hresponse>>
    /\ UNCHANGED <<svars, evars, rvars>>
    /\ UNCHANGED <<hvars, xvars>>

\* self._validator.validate raised: the exception leaves run
PValidateRaised ==
    /\ ppc = "validate"
    /\ vpc = "raised"
    /\ ppc' = "raised"
    /\ pexc' = vexc
    /\ UNCHANGED <<pcalls, pret, hresponse>>
    /\ UNCHANGED <<vvars, svars, evars, rvars>>
    /\ UNCHANGED <<hvars, xvars>>

\* return result, extraction.path
PReturn ==
    /\ ppc = "validate"
    /\ vpc = "returned"
    /\ pret' = [k |-> "tuple", v |-> <<vresult, rresult.path>>]
    /\ ppc' = "returned"
    /\ UNCHANGED <<pcalls, pexc, hresponse>>
    /\ UNCHANGED <<vvars, svars, evars, rvars>>
    /\ UNCHANGED <<hvars, xvars>>

\* HRespond with a body that leaves out the absent fields
HRespond_exclude_none ==
    /\ ppc = "returned"
    /\ hresponse = Null
    /\ hresponse' = JSONResponse(model_dump_exclude_none(pret.v[1]), 200)
    /\ hlog' = Append(hlog, LogRecord(200, _outcome(_null_fields(pret.v[1])),
                                      pret.v[2], _null_fields(pret.v[1])))
    /\ UNCHANGED <<ppc, pcalls, pret, pexc>>
    /\ UNCHANGED <<vvars, svars, evars, rvars>>
    /\ UNCHANGED <<hpc, hreq, model_loaded, hran, hexc, xvars>>

\* return JSONResponse(result.model_dump(mode="json"), status_code=200, ...)
HRespond ==
    /\ ppc = "returned"
    /\ hresponse = Null
    /\ hresponse' = JSONResponse(model_dump(pret.v[1]), 200)
    /\ hlog' = Append(hlog, LogRecord(200, _outcome(_null_fields(pret.v[1])),
                                      pret.v[2], _null_fields(pret.v[1])))
    /\ UNCHANGED <<ppc, pcalls, pret, pexc>>
    /\ UNCHANGED <<vvars, svars, evars, rvars>>
    /\ UNCHANGED <<hpc, hreq, model_loaded, hran, hexc, xvars>>

\* extract with status_code 200 from the start
HFinally_status_200 ==
    /\ ppc = "raised"
    /\ hlog = <<>>
    /\ hlog' = <<LogRecord(200, Null, Null, <<>>)>>
    /\ UNCHANGED <<ppc, pcalls, pret, pexc, hresponse>>
    /\ UNCHANGED <<vvars, svars, evars, rvars>>
    /\ UNCHANGED <<hpc, hreq, model_loaded, hran, hexc, xvars>>

\* extract: run raised; status_code is still 500 when the finally clause logs
HFinally ==
    /\ ppc = "raised"
    /\ hlog = <<>>
    /\ hlog' = <<LogRecord(500, Null, Null, <<>>)>>
    /\ UNCHANGED <<ppc, pcalls, pret, pexc, hresponse>>
    /\ UNCHANGED <<vvars, svars, evars, rvars>>
    /\ UNCHANGED <<hpc, hreq, model_loaded, hran, hexc, xvars>>

\* the exception no handler is registered for: the one that left extract
\* after run raised it, or the one that left the dependency
UnhandledException ==
    IF ppc = "raised" /\ hlog # <<>> THEN pexc
    ELSE IF hpc = "raised" /\ hexc.k = "unhandled" THEN hexc.v
    ELSE "none"

\* unhandled_exception_handler answering with the exception's text
HUnhandled_leaky ==
    /\ UnhandledException # "none"
    /\ hresponse = Null
    /\ hresponse' = JSONResponse(Obj([key \in {"error"} |->
                        Str(<<UnhandledException>>)]), 500)
    /\ UNCHANGED <<ppc, pcalls, pret, pexc>>
    /\ UNCHANGED <<vvars, svars, evars, rvars>>
    /\ UNCHANGED <<hvars, xvars>>

\* unhandled_exception_handler: the exception becomes a 500
HUnhandled ==
    /\ UnhandledException # "none"
    /\ hresponse = Null
    /\ hresponse' = JSONResponse(InternalFailure, 500)
    /\ UNCHANGED <<ppc, pcalls, pret, pexc>>
    /\ UNCHANGED <<vvars, svars, evars, rvars>>
    /\ UNCHANGED <<hvars, xvars>>

PNext ==
    \/ PCallExtract \/ PExtractRaised \/ PCallLLM \/ PLLMRaised
    \/ PCallValidate \/ PValidateRaised \/ PReturn
    \/ HRespond \/ HFinally \/ HUnhandled

-----------------------------------------------------------------------------
(* Validating a result again *)

\* the python-mode value of a field: a MonetaryAmount becomes a dict
PythonValue(x) ==
    IF x.k = "money"
    THEN Obj([key \in {"amount", "currency"} |->
                IF key = "amount" THEN Num(x.v.amount) ELSE x.v.currency])
    ELSE x

\* the raw forms of an InvoiceResult: its attributes (dict(result)), its
\* model_dump() and its model_dump(mode="json")
RawForms(result) ==
    {result, [f \in FiveKeys |-> PythonValue(result[f])], model_dump(result).v}

\* validate(raw form of result), result being what validate just returned
VRevalidate ==
    /\ vpc = "returned"
    /\ vfirst = Null
    /\ \E raw \in RawForms(vresult) :
        /\ vraw' = raw
        /\ vdata' = raw
    /\ vfirst' = Obj(vresult)
    /\ vpc' = "call"
    /\ vresult' = AllAbsent
    /\ vpath' = "none"
    /\ vwarnings' = <<>>
    /\ vexc' = "none"
    /\ UNCHANGED <<svars, evars, rvars, pvars>>

-----------------------------------------------------------------------------
(* Specifications *)

MaxScanLen == 6

ScanAlphabet == {LB, RB, QT, BS, "a"}

RECURSIVE StringsUpTo(_, _)
StringsUpTo(alphabet, n) ==
    IF n = 0 THEN {<<>>}
    ELSE LET shorter == StringsUpTo(alphabet, n - 1) IN
         shorter \cup {Append(w, c) : w \in {x \in shorter : Len(x) = n - 1},
                                      c \in alphabet}

\* Pipeline.run and SmartPDFExtractor.extract have not been called
RIdle ==
    /\ rpc = "idle"
    /\ rfile = Null
    /\ rtext = Null
    /\ page_count = 0
    /\ rresult = Null
    /\ rexc = "none"
    /\ rran = <<>>

\* no request is being served
HIdle ==
    /\ hpc = "idle"
    /\ hreq = Null
    /\ model_loaded = TRUE
    /\ hran = <<>>
    /\ hexc = Null
    /\ hlog = <<>>
    /\ LIdle

PIdle ==
    /\ ppc = "idle"
    /\ pcalls = <<>>
    /\ pret = Null
    /\ pexc = "none"
    /\ hresponse = Null
    /\ HIdle

VInit ==
    /\ \E raw \in RawRecords : VEnter(raw)
    /\ SIdle /\ EIdle /\ RIdle /\ PIdle

ValidateSpec == VInit /\ [][VNext]_vars

RevalidateSpec == VInit /\ [][VNext \/ VRevalidate]_vars

SInit ==
    /\ \E raw \in StringsUpTo(ScanAlphabet, MaxScanLen) : SEnter(raw)
    /\ VIdle /\ EIdle /\ RIdle /\ PIdle

ScanSpec == SInit /\ [][SNext]_vars

EInit ==
    /\ \E text \in Texts : \E response \in Responses(text) : EEnter(text, response)
    /\ VIdle /\ SIdle /\ RIdle /\ PIdle

ExtractSpec == EInit /\ [][ENext]_vars

HNext == HGate \/ HHealth \/ HNotFound \/ HAuth \/ HValidatePdf \/ HCallPipeline
           \/ HHttpException

\* a request arrives; Pipeline.run has not been called
HInit ==
    /\ \E request \in Requests, loaded \in BOOLEAN : HReceive(request, loaded)
    /\ ppc = "idle" /\ pcalls = <<>> /\ pret = Null /\ pexc = "none"
    /\ hresponse = Null
    /\ LIdle
    /\ VIdle /\ SIdle /\ EIdle /\ RIdle

HttpSpec == HInit /\ [][HNext \/ PNext \/ RNext \/ ENext \/ VNext]_vars

\* the state when the server enters lifespan: nothing is being served; the
\* application object may have been started before
LInit ==
    /\ lpc = "call"
    /\ lenv \in LEnvs
    /\ pipeline = Null
    /\ lexc = "none"
    /\ parked = Null
    /\ model_loaded \in BOOLEAN
    /\ hpc = "idle"
    /\ hreq = Null
    /\ hran = <<>>
    /\ hexc = Null
    /\ hlog = <<>>
    /\ hresponse = Null
    /\ ppc = "idle" /\ pcalls = <<>> /\ pret = Null /\ pexc = "none"
    /\ VIdle /\ SIdle /\ EIdle /\ RIdle

LifespanNext == LNext \/ HArrive \/ HNext \/ PNext \/ RNext \/ ENext \/ VNext

LifespanSpec == LInit /\ [][LifespanNext]_vars

Init == PEnter /\ HIdle /\ VIdle /\ SIdle /\ EIdle /\ RIdle

Next == PNext \/ RNext \/ ENext \/ VNext

Spec == Init /\ [][Next]_vars

-----------------------------------------------------------------------------
(* Pipeline.run and its stages as functions of their arguments *)

\* SmartPDFExtractor.extract
extract(file, min_chars) ==
    LET read == extract_text_and_page_count(file) IN
    IF read.raised THEN Raised(read.exc)
    ELSE IF _is_text_based(read.val.text, read.val.page_count, min_chars)
    THEN Returned(ExtractionResult(read.val.text, "text"))
    ELSE LET ocr == ocr_extract_text(file) IN
         IF ocr.raised THEN Raised(ocr.exc)
         ELSE Returned(ExtractionResult(ocr.val, "ocr"))

\* _extract_json_object: the loop from index i on
RECURSIVE ScanFrom(_, _, _, _, _, _)
ScanFrom(raw, from, i, d, in_str, escaped) ==
    IF i > Len(raw) THEN Null
    ELSE LET ch == raw[i]
             backslash == ~escaped /\ ch = BS /\ in_str
             quote == ~escaped /\ ~backslash /\ ch = QT
             plain == ~escaped /\ ~backslash /\ ~quote /\ ~in_str
         IN  IF plain /\ ch = RB /\ d - 1 = 0
             THEN Str(SubSeq(raw, from, i))
             ELSE ScanFrom(raw, from, i + 1,
                           IF plain /\ ch = LB THEN d + 1
                           ELSE IF plain /\ ch = RB THEN d - 1 ELSE d,
                           IF quote THEN ~in_str ELSE in_str,
                           backslash)

\* _extract_json_object
_extract_json_object(raw) ==
    IF Find(raw, LB) = 0 THEN Null
    ELSE ScanFrom(raw, Find(raw, LB), Find(raw, LB), 0, FALSE, FALSE)

\* _parse: result[key] = data.get(key) when data is a dict
Assigned(data) ==
    IF data.k = "obj" THEN [f \in FiveKeys |-> DictGet(data.v, f)] ELSE AllNone

\* LLMExtractor._parse
_parse(raw) ==
    LET obj == json_loads(raw) IN
    IF obj.ok THEN Returned(Assigned(obj.val))
    ELSE IF obj.exc # "JSONDecodeError" THEN Raised(obj.exc)
    ELSE LET extracted == _extract_json_object(raw)
             again == IF extracted.k = "str" /\ extracted.v # <<>>
                      THEN json_loads(extracted.v) ELSE JFail
         IN  IF again.ok THEN Returned(Assigned(again.val))
             ELSE IF again.exc = "JSONDecodeError" THEN Returned(AllNone)
             ELSE Raised(again.exc)

\* LLMExtractor.extract_fields, response being what the model does
extract_fields(response) ==
    IF response.k = "raises" THEN Raised(response.v)
    ELSE IF response.v.k = "missing" THEN Raised("KeyError")
    ELSE IF response.v.v = <<>> THEN Returned(AllNone)
    ELSE IF response.v.v[1].k = "missing" THEN Raised("KeyError")
    ELSE _parse(ContentString(response.v.v[1]))

\* InvoiceValidator.validate
validate(raw) ==
    LET totals == _check_totals(_coerce(_normalize_date(raw)).val) IN
    IF totals.raised THEN Raised("decimal.Overflow")
    ELSE Returned(_check_negative_amounts(totals.result).result)

\* Pipeline.run
run(file, response, min_chars) ==
    LET extraction == extract(file, min_chars) IN
    IF extraction.raised THEN extraction
    ELSE LET raw == extract_fields(response) IN
         IF raw.raised THEN raw
         ELSE LET result == validate(raw.val) IN
              IF result.raised THEN result
              ELSE Returned([k |-> "tuple",
                             v |-> <<result.val, extraction.val.path>>])

-----------------------------------------------------------------------------
(* Two requests in Pipeline.run at once.  The variables of a request are    *)
(* those of its call stack; application state is what requests share.  One  *)
(* request runs, the other one is parked until the scheduler switches.      *)

\* the variables of the running request
Frame ==
    [vpc |-> vpc, vraw |-> vraw, vdata |-> vdata, vresult |-> vresult,
      vpath |-> vpath, vwarnings |-> vwarnings, vexc |-> vexc,
      vfirst |-> vfirst, spc |-> spc, sraw |-> sraw, start |-> start,
      scan_i |-> scan_i, depth |-> depth, in_string |-> in_string,
      escape_next |-> escape_next, sret |-> sret, epc |-> epc,
      etext |-> etext, eresponse |-> eresponse, eraw |-> eraw,
      edata |-> edata, eresult |-> eresult, eexc |-> eexc, rpc |-> rpc,
      rfile |-> rfile, rtext |-> rtext, page_count |-> page_count,
      rresult |-> rresult, rexc |-> rexc, rran |-> rran, ppc |-> ppc,
      pcalls |-> pcalls, pret |-> pret, pexc |-> pexc,
      hresponse |-> hresponse, hpc |-> hpc, hreq |-> hreq, hran |-> hran,
      hexc |-> hexc, hlog |-> hlog]

\* the scheduler with the extractor's variables kept on the shared
\* SmartPDFExtractor instead of the call stack
CSwitch_extractor_state_shared ==
    /\ parked # Null
    /\ parked' = Frame
    /\ vpc' = parked.vpc
    /\ vraw' = parked.vraw
    /\ vdata' = parked.vdata
    /\ vresult' = parked.vresult
    /\ vpath' = parked.vpath
    /\ vwarnings' = parked.vwarnings
    /\ vexc' = parked.vexc
    /\ vfirst' = parked.vfirst
    /\ spc' = parked.spc
    /\ sraw' = parked.sraw
    /\ start' = parked.start
    /\ scan_i' = parked.scan_i
    /\ depth' = parked.depth
    /\ in_string' = parked.in_string
    /\ escape_next' = parked.escape_next
    /\ sret' = parked.sret
    /\ epc' = parked.epc
    /\ etext' = parked.etext
    /\ eresponse' = parked.eresponse
    /\ eraw' = parked.eraw
    /\ edata' = parked.edata
    /\ eresult' = parked.eresult
    /\ eexc' = parked.eexc
    /\ ppc' = parked.ppc
    /\ pcalls' = parked.pcalls
    /\ pret' = parked.pret
    /\ pexc' = parked.pexc
    /\ hresponse' = parked.hresponse
    /\ hpc' = parked.hpc
    /\ hreq' = parked.hreq
    /\ hran' = parked.hran
    /\ hexc' = parked.hexc
    /\ hlog' = parked.hlog
    /\ UNCHANGED rvars
    /\ UNCHANGED <<model_loaded, lvars>>

\* the scheduler lets the other request run
CSwitch ==
    /\ parked # Null
    /\ parked' = Frame
    /\ vpc' = parked.vpc
    /\ vraw' = parked.vraw
    /\ vdata' = parked.vdata
    /\ vresult' = parked.vresult
    /\ vpath' = parked.vpath
    /\ vwarnings' = parked.vwarnings
    /\ vexc' = parked.vexc
    /\ vfirst' = parked.vfirst
    /\ spc' = parked.spc
    /\ sraw' = parked.sraw
    /\ start' = parked.start
    /\ scan_i' = parked.scan_i
    /\ depth' = parked.depth
    /\ in_string' = parked.in_string
    /\ escape_next' = parked.escape_next
    /\ sret' = parked.sret
    /\ epc' = parked.epc
    /\ etext' = parked.etext
    /\ eresponse' = parked.eresponse
    /\ eraw' = parked.eraw
    /\ edata' = parked.edata
    /\ eresult' = parked.eresult
    /\ eexc' = parked.eexc
    /\ rpc' = parked.rpc
    /\ rfile' = parked.rfile
    /\ rtext' = parked.rtext
    /\ page_count' = parked.page_count
    /\ rresult' = parked.rresult
    /\ rexc' = parked.rexc
    /\ rran' = parked.rran
    /\ ppc' = parked.ppc
    /\ pcalls' = parked.pcalls
    /\ pret' = parked.pret
    /\ pexc' = parked.pexc
    /\ hresponse' = parked.hresponse
    /\ hpc' = parked.hpc
    /\ hreq' = parked.hreq
    /\ hran' = parked.hran
    /\ hexc' = parked.hexc
    /\ hlog' = parked.hlog
    /\ UNCHANGED <<model_loaded, lvars>>

\* the requests that pass the gate, the dependency and validate_pdf
AcceptedRequests ==
    {r \in Requests : /\ r.path = ExtractPath
                      /\ r.api_key = Str(ApiKey)
                      /\ r.upload.document # Null
                      /\ r.upload.file_bytes.size = 4}

\* what the loaded model answers while two requests run
ConcurrentAnswers ==
    {a \in Answers :
        \/ a.response = [k |-> "raises", v |-> "RuntimeError"]
        \/ /\ a.text # Composed(<<>>, FullPayload, <<>>)
           /\ a.text # Composed(<<"I", SP, "cannot", SP, "parse", SP, "this.">>,
                                Missing, <<>>)}

\* the handler has called pipeline.run(file_bytes) for the request
InRun(request) ==
    /\ PEnter
    /\ VIdle /\ SIdle /\ EIdle /\ RIdle
    /\ hpc = "pipeline"
    /\ hreq = request
    /\ hran = <<"gate", "verify_api_key", "validate_pdf", "pipeline">>
    /\ hexc = Null
    /\ hlog = <<>>

CInit ==
    /\ model_loaded = TRUE
    /\ lpc = "idle"
    /\ lenv = Null
    /\ pipeline = PipelineOf(Llama(ConcurrentAnswers))
    /\ lexc = "none"
    /\ \E first \in AcceptedRequests : InRun(first)
    /\ \E second \in AcceptedRequests : parked = [Frame EXCEPT !.hreq = second]

CNext == CSwitch \/ PNext \/ RNext \/ ENext \/ VNext

ConcurrentSpec == CInit /\ [][CNext]_vars

-----------------------------------------------------------------------------
(* Properties of validate (ValidateSpec) *)

ValidateCoerced == vpc \in {"coerced", "totals_checked", "returned", "raised"}

\* C1: for every raw record validate returns an InvoiceResult with exactly the
\* five fields and never raises.
C1_ValidateNeverRaises ==
    /\ vpc # "raised"
    /\ vpc = "returned" => DOMAIN vresult = FiveKeys

\* C3: when some top-level fields cannot be coerced, exactly those fields are
\* absent in the result, every other field holds its coerced input value, and
\* the all-fields-absent fallback is not taken.
C3_OnlyOffendingFieldsAbsent ==
    ValidateCoerced =>
        /\ vpath # "fallback"
        /\ \A f \in FiveKeys \ {"invoiceDate"} : vdata[f] = vraw[f]
        /\ \A f \in FiveKeys :
            vresult[f] = IF CoerceField(f, vdata[f]).ok
                         THEN CoerceField(f, vdata[f]).val
                         ELSE Null

\* C3 witness: a string netAmount and a currency-less vatAmount were nulled by
\* the retry while reference and totalAmount kept their values.
C3_Witness ==
    /\ vpc = "coerced"
    /\ vpath = "retry"
    /\ vraw["netAmount"] = Str(<<"not-an-object">>)
    /\ vraw["vatAmount"] = AmountObj(Num(-100), Missing)
    /\ vresult["netAmount"] = Null
    /\ vresult["vatAmount"] = Null
    /\ vresult["invoiceReference"] = Str(<<"INV-001">>)
    /\ vresult["totalAmount"] = Money(100, NOK)

\* C10: the result validate returns is the one type coercion produced, with
\* the amounts and currencies as given, whatever warnings were logged.
C10_ChecksPreserveResult ==
    vpc = "returned" =>
        /\ vresult = _coerce(_normalize_date(vraw)).val
        /\ \A f \in FiveKeys \ {"invoiceDate", "invoiceReference"} :
            (vraw[f] \in GoodAmounts /\ vraw[f].v.amount.k = "num") =>
                vresult[f] = Money(vraw[f].v.amount.v, vraw[f].v.currency)

\* C10 witness: net=100, vat=25, total=200, all NOK, returned as given after
\* the totals-inconsistency warning.
C10_Witness ==
    /\ vpc = "returned"
    /\ vwarnings = << <<"totals inconsistency">> >>
    /\ vresult["netAmount"] = Money(100, NOK)
    /\ vresult["vatAmount"] = Money(25, NOK)
    /\ vresult["totalAmount"] = Money(200, NOK)

\* C12: a date string in strict YYYY-MM-DD form is left as it is by
\* _normalize_date (no month-name substitution, no day-first parse) and the
\* result's invoiceDate is exactly that calendar date.
C12_IsoDatePreserved ==
    LET given == vraw["invoiceDate"] IN
    (vpc \notin {"idle", "call"} /\ given.k = "str" /\ Len(given.v) = 1
        /\ given.v[1] \in DOMAIN IsoDates) =>
        /\ vdata["invoiceDate"] = given
        /\ ValidateCoerced =>
            vresult["invoiceDate"] = [k |-> "date", v |-> IsoDates[given.v[1]]]

\* C12 witness: "2024-03-10", which a day-first parse would read as the 3rd
\* of October, came out as the 10th of March.
C12_Witness ==
    /\ vpc = "returned"
    /\ vraw["invoiceDate"] = Str(<<"2024-03-10">>)
    /\ vdata["invoiceDate"] = Str(<<"2024-03-10">>)
    /\ vresult["invoiceDate"] = DateOf(2024, 3, 10)

\* C11: validating the raw form of a result validate returned gives a result
\* equal to it in all five fields.
C11_ValidateIdempotent ==
    (vfirst # Null /\ vpc = "returned") =>
        \A f \in FiveKeys : vresult[f] = vfirst.v[f]

\* C11 witness: a result with a date and an amount came back unchanged from
\* its JSON-mode raw form.
C11_Witness ==
    /\ vfirst # Null
    /\ vpc = "returned"
    /\ vraw["invoiceDate"] = Str(<<"2024-01-15">>)
    /\ vraw["totalAmount"] = AmountObj(Str(<<"100">>), NOK)
    /\ vresult["invoiceDate"] = DateOf(2024, 1, 15)
    /\ vresult["totalAmount"] = Money(100, NOK)
    /\ vresult = vfirst.v

\* this warning was logged, this many times
Logged(kind) ==
    Cardinality({i \in DOMAIN vwarnings : vwarnings[i][1] = kind})

\* _check_totals has been called
TotalsChecked == vpc \in {"totals_checked", "returned", "raised"}

\* C20: when the three amounts are present and their currencies are not all
\* equal, validate logs the currency mismatch and no totals inconsistency,
\* whatever the amounts; when fewer than three amounts are present it logs
\* neither.
C20_CurrencyMismatchSkipsTotals ==
    TotalsChecked =>
        LET three == \A f \in {"netAmount", "vatAmount", "totalAmount"} :
                        vresult[f] # Null
        IN  /\ (three /\ (vresult["netAmount"].v.currency # vresult["vatAmount"].v.currency
                          \/ vresult["vatAmount"].v.currency
                                # vresult["totalAmount"].v.currency)) =>
                /\ vpc # "raised"
                /\ Logged("currency mismatch") = 1
                /\ Logged("totals inconsistency") = 0
            /\ ~three =>
                /\ vpc # "raised"
                /\ Logged("currency mismatch") = 0
                /\ Logged("totals inconsistency") = 0

\* C20 witness: net 100 NOK, vat 25 NOK and total 200 EUR were returned with
\* the currency mismatch as the only warning.
C20_Witness ==
    /\ vpc = "returned"
    /\ vresult["netAmount"] = Money(100, NOK)
    /\ vresult["vatAmount"] = Money(25, NOK)
    /\ vresult["totalAmount"] = Money(200, EUR)
    /\ vwarnings = << <<"currency mismatch">> >>

-----------------------------------------------------------------------------
(* Properties of _extract_json_object (ScanSpec) *)

\* the number of consecutive backslashes that end just before position j
RECURSIVE BackslashRun(_, _)
BackslashRun(raw, j) ==
    IF j <= 1 \/ raw[j - 1] # BS THEN 0 ELSE 1 + BackslashRun(raw, j - 1)

\* position j, read from position from on, lies inside a double-quoted
\* string: an odd number of string-delimiting quotes precedes it, where a
\* quote inside a string delimits unless an odd run of backslashes escapes it
RECURSIVE InsideString(_, _, _)
InsideString(raw, from, j) ==
    IF j <= from THEN FALSE
    ELSE LET before == InsideString(raw, from, j - 1)
             delimits == raw[j - 1] = QT
                         /\ ~(before /\ BackslashRun(raw, j - 1) % 2 = 1)
         IN  IF delimits THEN ~before ELSE before

\* braces opened minus braces closed in from..j, outside strings
NestingDepth(raw, from, j) ==
    Cardinality({m \in from..j : raw[m] = LB /\ ~InsideString(raw, from, m)})
    - Cardinality({m \in from..j : raw[m] = RB /\ ~InsideString(raw, from, m)})

\* the '}' positions outside strings at which the depth is back to zero
Closers(raw, from) ==
    {j \in from..Len(raw) :
        raw[j] = RB /\ ~InsideString(raw, from, j) /\ NestingDepth(raw, from, j) = 0}

FirstBalanced(raw) ==
    LET from == Find(raw, LB) IN
    IF from = 0 \/ Closers(raw, from) = {} THEN Null
    ELSE LET to == CHOOSE j \in Closers(raw, from) :
                        \A m \in Closers(raw, from) : j <= m
         IN  Str(SubSeq(raw, from, to))

\* C8: _extract_json_object(raw) returns the substring from the first '{' to
\* the first later '}' at which the nesting depth is back to zero, braces
\* inside double-quoted strings not counting and an escaped quote not ending
\* its string; None when there is no such substring.
C8_FirstBalancedObject == spc = "done" => sret = FirstBalanced(sraw)

\* C8 witness: the object {"\""} is returned whole: the escaped quote inside
\* its string does not end the string.
C8_Witness ==
    /\ spc = "done"
    /\ sraw = <<LB, QT, BS, QT, QT, RB>>
    /\ sret = Str(sraw)

-----------------------------------------------------------------------------
(* Properties of extract_fields (ExtractSpec) *)

\* the five known keys of an object, None for those it lacks
FiveOf(payload) == [f \in FiveKeys |-> DictGet(payload.v, f)]

\* C5: for every response of the expected structure, whatever its content
\* and however many choices, extract_fields returns a record with exactly the
\* five known keys: only the first choice is read, no other key of the object
\* is copied, and a known key the object lacks is None.
C5_ExactlyFiveKeys ==
    /\ epc = "raised" => (eresponse.k = "raises" \/ eexc = "KeyError")
    /\ epc = "returned" =>
        /\ DOMAIN eresult = FiveKeys
        /\ eresponse.v.v # <<>> => eraw = ContentString(eresponse.v.v[1])
        /\ \A f \in FiveKeys :
            (edata.k = "obj" /\ f \notin DOMAIN edata.v) => eresult[f] = Null

\* the model wrote prose around one JSON object and the whole is not JSON
ProseWrapped ==
    /\ epc = "returned"
    /\ etext.payload.k = "obj"
    /\ eraw = TextOf(etext)
    /\ ~json_loads(eraw).ok

\* C9: when the model's text is not JSON as a whole but holds a JSON object
\* surrounded by arbitrary prose, extract_fields returns the values of that
\* object's five known keys.
C9_ObjectInArbitraryProse ==
    ProseWrapped => eresult = FiveOf(etext.payload)

\* extract_fields has ended for a response of the expected structure
EEnded ==
    /\ epc \in {"returned", "raised"}
    /\ eresponse.k = "dict"
    /\ eresponse.v.k = "list"
    /\ eresponse.v.v # <<>> => eresponse.v.v[1].k # "missing"

\* the string is not JSON
NotJson(s) == ~json_loads(s).ok /\ json_loads(s).exc = "JSONDecodeError"

\* the cases in which no candidate object is established
NoCandidate ==
    \/ eresponse.v.v = <<>>
    \/ LET raw == ContentString(eresponse.v.v[1]) IN
        \/ raw = <<>>
        \/ Find(raw, LB) = 0
        \/ FirstBalanced(raw) = Null
        \/ FirstBalanced(raw).k = "str" /\ NotJson(FirstBalanced(raw).v)

\* C17: extract_fields returns the all-None record when there is no choice,
\* the first content is empty or None, the text holds no opening brace, the
\* first opening brace is never balanced, or the balanced substring is not
\* JSON.
C17_NoCandidateAllAbsent ==
    (EEnded /\ NoCandidate) => (epc = "returned" /\ eresult = AllNone)

\* C18: when the whole text parses as JSON and the value is not an object,
\* the scanner is not called and extract_fields returns the all-None record.
C18_NonObjectNotScanned ==
    (epc \in {"assign", "scan", "returned", "raised"}
        /\ json_loads(eraw).ok /\ json_loads(eraw).val.k # "obj") =>
        /\ epc \in {"assign", "returned"}
        /\ spc = "idle"
        /\ edata = Null
        /\ epc = "returned" => eresult = AllNone

\* C18 witness: the text is an array holding the full object and the
\* all-None record was returned without a scan.
C18_Witness ==
    /\ epc = "returned"
    /\ eraw = Dump([k |-> "list", v |-> <<FullPayload>>])
    /\ spc = "idle"
    /\ eresult = AllNone

\* C19: when a candidate object exists, each of the five keys of the
\* returned record holds the value the object has under that key, whatever
\* its shape, and None for a key the object lacks; an object the model wrote
\* alone arrives with the values it was written with.
C19_KeysPassedThrough ==
    /\ (epc = "returned" /\ edata.k = "obj") =>
        \A f \in FiveKeys :
            eresult[f] = IF f \in DOMAIN edata.v THEN edata.v[f] ELSE Null
    /\ (epc = "returned" /\ etext.payload.k = "obj"
            /\ etext.pre = <<>> /\ etext.post = <<>> /\ eraw = TextOf(etext)) =>
        \A f \in FiveKeys :
            eresult[f] = IF f \in DOMAIN etext.payload.v
                         THEN etext.payload.v[f] ELSE Null

\* C19 witness: netAmount is the string "n/a"; it and the two values beside
\* it were returned as written, and the keys the object lacks are None.
C19_Witness ==
    /\ epc = "returned"
    /\ edata.k = "obj"
    /\ eresult = [invoiceDate |-> Str(<<"2024-03-10">>),
                  invoiceReference |-> Str(<<"REF-456">>),
                  netAmount |-> Str(<<"n/a">>),
                  vatAmount |-> Null, totalAmount |-> Null]

-----------------------------------------------------------------------------
(* Properties of the Extraction Router, Pipeline.run and the response (Spec) *)

\* C7: the router returns "text" with the embedded text exactly when
\* page_count > 0 and len(text) / page_count reaches the threshold of 50,
\* equality included; otherwise it returns "ocr" with the recognized text,
\* and so it does for every text length when page_count is 0.
C7_TextIffThreshold ==
    rpc = "returned" =>
        /\ rresult.path \in {"text", "ocr"}
        /\ rresult.path = "text" <=>
            (page_count > 0 /\ rtext.len \div page_count >= _MIN_TEXT_CHARS_PER_PAGE)
        /\ rresult.path = "text" => (rresult.text = rtext /\ rtext.src = "embedded")
        /\ rresult.path = "ocr" => rresult.text = TextValue("ocr", rfile.ocr.v)
        /\ page_count = 0 => rresult.path = "ocr"

\* C7 witness: one page of exactly 50 characters is text-based.
C7_Witness ==
    /\ rpc = "returned"
    /\ rfile.k = "pdf"
    /\ rfile.pages = <<50>>
    /\ rtext.len = 50
    /\ page_count = 1
    /\ rresult = ExtractionResult(TextValue("embedded", 50), "text")

StageOrder == <<"pdf", "llm", "validator">>

\* C6: run invokes router, extractor, validator in this order, each at most
\* once, each after the previous stage returned and with what it returned; a
\* stage's exception leaves run unchanged with no later stage invoked; on
\* success run returns validate's result and the router's strategy tag.
C6_StagesInOrderFailFast ==
    /\ Len(pcalls) <= 3
    /\ \A i \in DOMAIN pcalls : pcalls[i][1] = StageOrder[i]
    /\ Len(pcalls) >= 2 => (rpc = "returned" /\ pcalls[2][2] = rresult.text)
    /\ Len(pcalls) >= 3 => (epc = "returned" /\ pcalls[3][2] = eresult)
    /\ rpc = "raised" => Len(pcalls) = 1
    /\ epc = "raised" => Len(pcalls) = 2
    /\ ppc = "raised" =>
        /\ pret = Null
        /\ pexc # "none"
        /\ pexc = (IF rpc = "raised" THEN rexc
                   ELSE IF epc = "raised" THEN eexc ELSE vexc)
    /\ ppc = "returned" =>
        /\ Len(pcalls) = 3
        /\ vpc = "returned"
        /\ pexc = "none"
        /\ pret.v = <<vresult, rresult.path>>
        /\ pret.v[2] \in {"text", "ocr"}

\* C6 witness: all three stages ran and run returned the "ocr" tag.
C6_Witness ==
    /\ ppc = "returned"
    /\ Len(pcalls) = 3
    /\ rresult.path = "ocr"
    /\ pret.v = <<vresult, "ocr">>
    /\ vresult["invoiceReference"] = Str(<<"INV-001">>)

\* C4: extract_fields never raises, so once the router has returned text
\* Pipeline.run does not raise.
C4_ExtractFieldsAbsorbsFailures ==
    /\ epc # "raised"
    /\ rpc = "returned" => ppc # "raised"

\* C2: the body of every 200 response is a JSON object with exactly the five
\* keys; a field is null in it exactly when it is absent in the result.
C2_AllFiveKeysSerialized ==
    (hresponse.k = "response" /\ hresponse.status = 200) =>
        LET body == json_loads(hresponse.body) IN
        /\ body.ok
        /\ body.val.k = "obj"
        /\ DOMAIN body.val.v = FiveKeys
        /\ \A f \in FiveKeys : (body.val.v[f] = Null) <=> (pret.v[1][f] = Null)

\* C2 witness: a 200 response for a result whose five values are all absent.
C2_Witness ==
    /\ hresponse.k = "response"
    /\ hresponse.status = 200
    /\ pret.v[1] = AllAbsent
    /\ json_loads(hresponse.body).val = Obj(AllAbsent)

-----------------------------------------------------------------------------
(* Properties of the application around the pipeline (HttpSpec) *)

\* this part of the application ran for the request
Ran(part) == \E i \in DOMAIN hran : hran[i] = part

Answered == hresponse.k = "response"

C13_BadKeyAnswered401 ==
    (Ran("verify_api_key") /\ HeaderValue(hreq.api_key) # ApiKey) =>
        /\ ~Ran("validate_pdf")
        /\ ~Ran("pipeline")
        /\ Answered => hresponse.status = 401

\* the upload was refused with this status for this reason
Refused(status, class) ==
    /\ hpc \in {"raised", "done"}
    /\ hexc = HTTPException(status, ErrorMessage(class))
    /\ ~Ran("pipeline")
    /\ Answered => hresponse.status = status

\* C15: validate_pdf reports the first failing check in the order content
\* type (400), size (413), magic bytes (400), and the pipeline runs only for
\* uploads that pass all three.
C15_FirstFailingCheckReported ==
    Ran("validate_pdf") =>
        LET upload == hreq.upload
            is_pdf == upload.content_type = Str(<<"application/pdf">>)
            fits == upload.file_bytes.size <= 10 * 1024 * 1024
            magic == upload.file_bytes.head = <<"%", "P", "D", "F">>
        IN  /\ ~is_pdf => Refused(400, "InvalidContentTypeError")
            /\ (is_pdf /\ ~fits) => Refused(413, "FileTooLargeError")
            /\ (is_pdf /\ fits /\ ~magic) => Refused(400, "InvalidMagicBytesError")
            /\ (is_pdf /\ fits /\ magic) =>
                (hpc \in {"accepted", "pipeline"} /\ hexc = Null)

\* C15 witness: an oversized application/pdf upload with wrong magic bytes
\* was answered 413.
C15_Witness ==
    /\ hreq.upload.content_type = Str(<<"application/pdf">>)
    /\ hreq.upload.file_bytes = [head |-> <<"N", "O", "T", "P">>, size |-> 10485761]
    /\ Answered
    /\ hresponse.status = 413
    /\ ~Ran("pipeline")

\* C16: an exception no handler is registered for is answered 500 with the
\* body {"error": "Internal processing failure"}, the same for every
\* exception: no "detail" key and nothing of the exception in it.
C16_UnhandledAnsweredFixed500 ==
    /\ (UnhandledException # "none" /\ Answered) => hresponse.status = 500
    /\ (Answered /\ hresponse.status = 500) =>
        LET body == json_loads(hresponse.body).val IN
        /\ UnhandledException # "none"
        /\ body.k = "obj"
        /\ DOMAIN body.v = {"error"}
        /\ body.v["error"] = Str(<<"Internal", SP, "processing", SP, "failure">>)
        /\ \A i \in DOMAIN body.v["error"].v : body.v["error"].v[i] # UnhandledException

\* C16 witness: the PDFSyntaxError of a corrupt upload was answered with the
\* fixed body.
C16_Witness ==
    /\ pexc = "PDFSyntaxError"
    /\ Answered
    /\ hresponse.status = 500
    /\ hresponse.body = <<LB, QT, "error", QT, COLON, SP, QT, "Internal", SP,
                          "processing", SP, "failure", QT, RB>>

-----------------------------------------------------------------------------
(* Properties of the two checks of validate (ValidateSpec) *)

ThreePresent ==
    \A f \in {"netAmount", "vatAmount", "totalAmount"} : vresult[f] # Null

OneCurrency ==
    /\ vresult["netAmount"].v.currency = vresult["vatAmount"].v.currency
    /\ vresult["vatAmount"].v.currency = vresult["totalAmount"].v.currency

\* net + vat deviates from total by more than 1% of |total|
DeviatesOverOnePercent ==
    LET net == vresult["netAmount"].v.amount
        vat == vresult["vatAmount"].v.amount
        total == vresult["totalAmount"].v.amount
        diff == net + vat - total
    IN  100 * (IF diff < 0 THEN -diff ELSE diff)
            > (IF total < 0 THEN -total ELSE total)

\* C21: the totals inconsistency is logged if and only if the three amounts
\* are present, share one currency, total is not 0 and |net + vat - total| is
\* more than 1% of |total|.
C21_TotalsWarningIff ==
    TotalsChecked =>
        (Logged("totals inconsistency") >= 1
            <=> (/\ ThreePresent
                 /\ OneCurrency
                 /\ vresult["totalAmount"].v.amount # 0
                 /\ DeviatesOverOnePercent))

\* validate has ended
VEnded == vpc \in {"returned", "raised"}

\* how many negative-amount warnings name this field
LoggedNegative(f) ==
    Cardinality({i \in DOMAIN vwarnings :
                    vwarnings[i] = <<"negative amount", f>>})

\* C22: in every validate call one negative-amount warning is logged for each
\* of netAmount, vatAmount and totalAmount that is present with amount < 0,
\* and none for an absent field or an amount >= 0.
C22_NegativeAmountsWarned ==
    VEnded =>
        \A f \in {"netAmount", "vatAmount", "totalAmount"} :
            LoggedNegative(f)
                = IF vresult[f] # Null /\ vresult[f].v.amount < 0 THEN 1 ELSE 0

\* _normalize_date has returned
DateNormalized == vpc \notin {"idle", "call"}

\* C23: _normalize_date leaves an absent date and a date instance as they
\* are, makes a value that is neither a string nor a date absent, makes a
\* string absent that is not an ISO date and that dateutil cannot parse after
\* the month substitution, leaves the other four fields as given, and lets no
\* exception escape.
C23_DateDegradesToAbsent ==
    DateNormalized =>
        LET given == vraw["invoiceDate"]
            kept == vdata["invoiceDate"]
        IN  /\ given.k \in {"missing", "null", "date", "datetime"} => kept = given
            /\ given.k \in {"num", "bool", "list", "obj"} => kept = Null
            /\ (given.k = "str" /\ ~FromIsoFormatOk(given.v)
                    /\ ~DateutilParse(_normalize_european_months(given.v)).ok) =>
                kept = Null
            /\ \A f \in FiveKeys \ {"invoiceDate"} : vdata[f] = vraw[f]
            /\ vexc \notin {"ValueError", "OverflowError", "TypeError"}
            /\ ValidateCoerced =>
                ((given.k \in {"missing", "null"} \/ kept = Null) =>
                    vresult["invoiceDate"] = Null)

\* C23 witness: "order #2024-001" became absent while the reference and the
\* total beside it were returned.
C23_Witness ==
    /\ vpc = "returned"
    /\ vraw["invoiceDate"] = Str(<<"order", SP, "#2024-001">>)
    /\ vdata["invoiceDate"] = Null
    /\ vresult["invoiceDate"] = Null
    /\ vresult["invoiceReference"] = Str(<<"INV-001">>)
    /\ vresult["totalAmount"] = Money(100, NOK)

\* the date is written "15 <month> 2024" with a month name of the languages
WrittenWithMonthName ==
    LET given == vraw["invoiceDate"] IN
    /\ given.k = "str"
    /\ Len(given.v) = 5
    /\ given.v[1] \in {"15", "15."}
    /\ given.v[5] = "2024"
    /\ \E p \in LanguageMonths : p[1] = Lower(given.v[3])

\* C24: a date written "D <month name> YYYY" with a month name of German,
\* Dutch, French, Italian, Spanish or a Scandinavian language, in any letter
\* case, is normalized to the date with that day, month and year.
C24_EveryMonthNameNormalized ==
    (DateNormalized /\ WrittenWithMonthName) =>
        LET name == Lower(vraw["invoiceDate"].v[3])
            month == (CHOOSE p \in LanguageMonths : p[1] = name)[2]
        IN  /\ vdata["invoiceDate"] = DateOf(2024, month, 15)
            /\ ValidateCoerced => vresult["invoiceDate"] = DateOf(2024, month, 15)

-----------------------------------------------------------------------------
(* Properties of the Extraction Router's failures (Spec) *)

RouterRan(call) == \E i \in DOMAIN rran : rran[i] = call

\* C25: extract raises on empty input before the document is opened; when
\* the embedded-text extraction raises, extract raises the same exception and
\* optical recognition does not run; optical recognition runs only after the
\* embedded text was extracted and classified as not text-based, and never
\* when the result is "text".
C25_NoSilentRecovery ==
    /\ (rfile.k = "empty" /\ rpc # "plumber") =>
        (rpc = "raised" /\ rexc = "ValueError" /\ rran = <<>>)
    /\ (rfile.k = "corrupt" /\ rpc # "plumber") =>
        /\ rpc = "raised"
        /\ rexc = "PDFSyntaxError"
        /\ rran = <<"pdfplumber.open">>
    /\ RouterRan("ocr.extract_text") =>
        /\ rran = <<"pdfplumber.open", "ocr.extract_text">>
        /\ rtext # Null
        /\ rtext.src = "embedded"
        /\ ~(page_count > 0 /\ rtext.len >= 50 * page_count)
    /\ (rpc = "returned" /\ rresult.path = "text") => ~RouterRan("ocr.extract_text")
    /\ (rpc = "raised" /\ ~RouterRan("ocr.extract_text")) => rresult = Null

\* C25 witness: a corrupt document made extract raise PDFSyntaxError, run
\* ended with it, and optical recognition did not run.
C25_Witness ==
    /\ rfile.k = "corrupt"
    /\ rpc = "raised"
    /\ rexc = "PDFSyntaxError"
    /\ ppc = "raised"
    /\ pexc = "PDFSyntaxError"
    /\ ~RouterRan("ocr.extract_text")

\* C29: the router returns "text" only if the characters of the pages, the
\* separators between pages not counted, divided by the page count reach the
\* threshold; a document whose pages all have fewer characters than the
\* threshold is routed to "ocr".
C29_SeparatorsNotCounted ==
    (rpc = "returned" /\ rfile.k = "pdf") =>
        /\ rresult.path = "text" =>
            Sum(rfile.pages) >= _MIN_TEXT_CHARS_PER_PAGE * Len(rfile.pages)
        /\ (\A i \in DOMAIN rfile.pages : rfile.pages[i] < _MIN_TEXT_CHARS_PER_PAGE) =>
            rresult.path = "ocr"

-----------------------------------------------------------------------------
(* Properties of the scan's states and steps (ScanSpec) *)

\* what holds in every state of the scan
ScanStateOk ==
    /\ depth >= 0
    /\ (spc = "loop" /\ scan_i > start) => depth >= 1
    /\ (spc = "done" /\ start > 0 /\ sret = Null) => depth >= 1
    /\ spc = "loop" => (start <= scan_i /\ scan_i <= Len(sraw) + 1)
    /\ spc \in {"find", "loop"} => ENABLED SNext
    /\ spc = "done" =>
        /\ sret = Null <=>
            (Find(sraw, LB) = 0 \/ Closers(sraw, Find(sraw, LB)) = {})
        /\ sret # Null =>
            /\ sret.v[1] = LB
            /\ sret.v[Len(sret.v)] = RB
            /\ NestingDepth(sret.v, 1, Len(sret.v)) = 0

\* a step of the loop moves to the next character or returns
ScanStepOk ==
    spc = "loop" =>
        \/ spc' = "loop" /\ scan_i' = scan_i + 1
        \/ spc' = "done" /\ scan_i' = scan_i

\* C30: in every state of the scan depth is not negative, and at least 1
\* from the first '{' until the scan returns; each step of the loop goes to
\* the next character or ends the scan, and a step is always possible until
\* it has ended; a returned substring starts with '{', ends with '}' and
\* holds as many '{' as '}' outside strings; None is returned exactly when
\* there is no '{' or the depth never returns to zero.
C30_ScanInvariants == [](ScanStateOk) /\ [][ScanStepOk]_vars

\* C30 witness: from a{"}"} the scan returned {"}"}, the brace inside the
\* string not counted.
C30_Witness ==
    /\ spc = "done"
    /\ sraw = <<"a", LB, QT, RB, QT, RB>>
    /\ sret = Str(<<LB, QT, RB, QT, RB>>)
    /\ depth = 0
    /\ scan_i = 6

-----------------------------------------------------------------------------
(* Properties of the log record of extract (HttpSpec) *)

ReachedHandler == Ran("validate_pdf")

OutcomeDecided == hpc \in {"raised", "done"} \/ ppc \in {"returned", "raised"}

Listed(seq) == {seq[i] : i \in DOMAIN seq}

\* C27: a request that reaches the extract handler emits exactly one
\* "extract complete" record, after the outcome is decided and before the
\* response; its status_code is the status of the response sent: 200 on
\* success, 400 or 413 on a rejected upload, 500 when the pipeline raises; on
\* success extraction_path is the router's tag, null_fields lists exactly the
\* null fields of the result and outcome is "partial" if there are any, else
\* "success".  A request that does not reach the handler emits none.
C27_OneLogRecordPerRequest ==
    /\ Len(hlog) <= 1
    /\ ~ReachedHandler => hlog = <<>>
    /\ hlog # <<>> => (ReachedHandler /\ OutcomeDecided)
    /\ (ReachedHandler /\ Answered) =>
        /\ Len(hlog) = 1
        /\ hlog[1].status_code = hresponse.status
        /\ hresponse.status \in {200, 400, 413, 500}
        /\ hresponse.status = 200 <=> ppc = "returned"
        /\ hresponse.status \in {400, 413} <=> (hpc \in {"raised", "done"} /\ ~Ran("pipeline"))
        /\ hresponse.status = 500 <=> ppc = "raised"
        /\ hresponse.status = 200 =>
            LET body == json_loads(hresponse.body).val
                record == hlog[1]
            IN  /\ record.extraction_path = rresult.path
                /\ Len(record.null_fields) = Cardinality(Listed(record.null_fields))
                /\ Listed(record.null_fields) = {f \in FiveKeys : body.v[f] = Null}
                /\ record.outcome =
                      IF \E f \in FiveKeys : body.v[f] = Null
                      THEN "partial" ELSE "success"

\* C27 witness: a request whose result has absent fields was answered 200
\* after the record with outcome "partial" and the router's tag "ocr".
C27_Witness ==
    /\ ReachedHandler
    /\ Answered
    /\ hresponse.status = 200
    /\ Len(hlog) = 1
    /\ hlog[1].outcome = "partial"
    /\ hlog[1].extraction_path = "ocr"
    /\ hlog[1].null_fields # <<>>

\* a witness of the other outcomes: a rejected upload logged 413 and a
\* raising pipeline logged 500
LoggedRefusal == Answered /\ hlog # <<>> /\ hlog[1].status_code = 413

LoggedFailure == Answered /\ hlog # <<>> /\ hlog[1].status_code = 500 /\ ppc = "raised"

-----------------------------------------------------------------------------
(* Properties of startup (LifespanSpec) *)

Starting == lpc \in {"try", "model", "stored"}

\* what part of startup raises for the environment, "none" if nothing does
StartupFailure ==
    IF ~lenv.has_model_options THEN "AttributeError"
    ELSE IF lenv.init_model.raised THEN lenv.init_model.exc
    ELSE "none"

StartupFailed == lpc = "raised" /\ lexc = "OSError" /\ ~model_loaded

-----------------------------------------------------------------------------
(* Properties of two requests in Pipeline.run at once (ConcurrentSpec) *)

\* what the request of a frame obtains from run when it runs alone, the
\* model answering as it answered this request
Alone(frame) ==
    run(frame.hreq.upload.document, frame.eresponse, _MIN_TEXT_CHARS_PER_PAGE)

\* the outcome of run in a frame is the one of the request run alone
SameAsAlone(frame) ==
    /\ frame.ppc = "returned" =>
        /\ frame.epc # "idle"
        /\ ~Alone(frame).raised
        /\ frame.pret = Alone(frame).val
        /\ frame.pret.v[2] = extract(frame.hreq.upload.document,
                                     _MIN_TEXT_CHARS_PER_PAGE).val.path
    /\ (frame.ppc = "raised" /\ frame.epc = "idle") =>
        LET extraction == extract(frame.hreq.upload.document,
                                  _MIN_TEXT_CHARS_PER_PAGE)
        IN  extraction.raised /\ frame.pexc = extraction.exc
    /\ (frame.ppc = "raised" /\ frame.epc # "idle") =>
        /\ Alone(frame).raised
        /\ frame.pexc = Alone(frame).exc
    /\ frame.epc # "idle" =>
        [text |-> frame.etext, response |-> frame.eresponse]
            \in pipeline._llm._model.answers

Isolated == parked # Null => (SameAsAlone(Frame) /\ SameAsAlone(parked))

SharedStateOnlyRead == pipeline' = pipeline /\ model_loaded' = model_loaded

\* C28: two requests run Pipeline.run at once, the scheduler switching
\* between them after any step; each obtains the result and the strategy tag
\* (or the exception) it obtains when run alone, and no step writes the
\* application state the requests share: the pipeline with the loaded model
\* and model_loaded.
C28_RequestsIsolated == [](Isolated) /\ [][SharedStateOnlyRead]_vars

\* C28 witness: both requests are through, the running one with the tag
\* "ocr" and the parked one with "text"; the parked one ended while the
\* running one was between its stages.
C28_Witness ==
    /\ parked # Null
    /\ ppc = "returned"
    /\ pret.v[2] = "ocr"
    /\ parked.ppc = "returned"
    /\ parked.pret.v[2] = "text"
    /\ parked.pret.v[1] # pret.v[1]

\* a request failed while the other one went through
OneFailedOneReturned ==
    parked # Null /\ ppc = "raised" /\ parked.ppc = "returned"

====
